---- MODULE Spec2Model ----
(***************************************************************************)
(* k8s-glance-backend: a REST facade over the Kubernetes API.              *)
(*                                                                         *)
(* The model holds the remote control plane's objects of one namespace     *)
(* (one named member per resource kind, the pod list, the endpoints of the *)
(* service), the requests in flight in the facade, and the last response   *)
(* it wrote.  A handler that makes one remote call is one atomic step; a   *)
(* handler that makes two (the read-modify-write updates, ScaleDeployment, *)
(* GetServiceStatus) is two steps with other requests free to interleave.  *)
(*                                                                         *)
(* Values are abstract: a map-valued or list-valued field is a finite map  *)
(* from Keys to integer tokens, the empty map being Go's zero value ("",   *)
(* nil, an empty list).  Token 0 is what the remote objects hold initially;*)
(* request r writes token r, so every written value names its writer.      *)
(*                                                                         *)
(* Around the handlers stand the process (configuration, client            *)
(* construction, route registration, serving, shutdown: variable proc),    *)
(* the router's table of routes, and a history of answers (variable seen)  *)
(* against which a repeated request is compared.                           *)
(*                                                                         *)
(* Further specifications look at one part each: the ingress with the      *)
(* controller that writes its load-balancer status, the usage scans with   *)
(* pods coming and going, the namespace metrics over small pod sets, the   *)
(* deployment CreateDeployment builds, an update body sent twice, and the  *)
(* CORS middleware as a step ahead of the handlers.                        *)
(***************************************************************************)
EXTENDS Integers, Sequences, FiniteSets, TLC

\* ----------------------------------------------------------------- bounds
\* Number of requests the facade receives in a run.
NReq == 2
\* Largest number of field groups one update body names.
MaxNamed == 1
\* Largest replica count a scale request or a create body asks for.
MaxReplicas == 1
\* Largest size of the drawn pod set of a usage scan: pods, volumes, containers
\* and environment entries together.
MaxPodElems == 5
\* Number of further requests that arrive where the answers are compared.
MaxMore == 1
\* Largest number of pods in the namespace where the pods are counted by phase.
MaxPods == 3

\* ----------------------------------------------------------------- values
Keys == {"k1", "k2"}

\* The name of the one member of every kind; "other" names nothing stored.
ObjName == "app"

Names == {ObjName, "other"}

EmptyMap == [k \in {} |-> 0]

IsEmpty(m) == DOMAIN m = {}

\* The value request r supplies for a named group.
Tag(r) == [k \in {"k1"} |-> r]

\* What every remote object holds before any request.
InitialMap == [k \in Keys |-> 0]

Merge(old, new) ==
    [k \in (DOMAIN old) \cup (DOMAIN new) |->
        IF k \in DOMAIN new THEN new[k] ELSE old[k]]

Kinds == {"deployment", "service", "configmap", "secret", "ingress"}

\* The field groups of an object that an update body can name.
Groups(kind) ==
    CASE kind = "deployment" -> {"image", "replicas", "labels", "annotations", "envVars"}
      [] kind = "service"    -> {"ports", "selector", "labels", "externalIPs"}
      [] kind = "configmap"  -> {"data", "binaryData", "labels", "annotations"}
      [] kind = "secret"     -> {"data", "labels", "annotations"}
      [] kind = "ingress"    -> {"className", "rules", "tls", "labels", "annotations"}

ZeroValue(g) == IF g = "replicas" THEN 0 ELSE EmptyMap

\* What the control plane alone writes into an object: an ingress carries the
\* addresses of its load balancer in its status.
StatusGroups(kind) == IF kind = "ingress" THEN {"loadBalancer"} ELSE {}

ZeroObject(kind) == [g \in Groups(kind) \cup StatusGroups(kind) |-> ZeroValue(g)]

InitialObject(kind) ==
    [g \in Groups(kind) \cup StatusGroups(kind) |-> IF g = "replicas" THEN 0 ELSE InitialMap]

Absent(kind) == [present |-> FALSE, obj |-> ZeroObject(kind)]

Present(o) == [present |-> TRUE, obj |-> o]

\* ----------------------------------------------------------- remote errors
OkOutcome == [ok |-> TRUE, typed |-> FALSE, code |-> 200, reason |-> ""]

StatusError(c, why) == [ok |-> FALSE, typed |-> TRUE, code |-> c, reason |-> why]

NotFound == StatusError(404, "NotFound")

AlreadyExists == StatusError(409, "AlreadyExists")

Conflict == StatusError(409, "Conflict")

Forbidden == StatusError(403, "Forbidden")

\* A failure that is no *errors.StatusError (connection refused, timeout).
Transport == [ok |-> FALSE, typed |-> FALSE, code |-> 0, reason |-> "transport"]

\* ------------------------------------------------------------------ state
VARIABLES
    remote,     \* remote[kind]: [present, obj], the named member of each kind
    endpoints,  \* the Endpoints object of the service: [present, addrs]
    pods,       \* the pod list of the namespace
    req,        \* req[r]: request r in the facade (pc, handler, input, local copy)
    last,       \* the response written last, with its request and remote calls
    wlog,       \* history: the remote writes accepted so far, in order
    copresent,  \* history: the <<service, endpoints>> pairs the remote has held
    proc,       \* the server process: its environment and how far main has come
    seen        \* history: the answers given so far, each with what it was given on

vars == <<remote, endpoints, pods, req, last, wlog, copresent, proc, seen>>

Reqs == 1..NReq

\* ----------------------------------------------------------------- inputs
NoInput == [shape |-> "none", body |-> EmptyMap]

BadInputs == {[shape |-> "missing", body |-> EmptyMap],
              [shape |-> "malformed", body |-> EmptyMap]}

Json(b) == [shape |-> "json", body |-> b]

Has(b, f) == f \in DOMAIN b

\* The fields of an update body, per handler's updateRequest struct.
BodyFields(kind) ==
    IF kind = "secret" THEN {"stringData", "labels", "annotations"}
    ELSE Groups(kind)

\* A named field holds either Go's zero value or the value request r supplies.
BodyVal(f, r, flavour) ==
    IF flavour = "zero" THEN (IF f = "replicas" THEN 0 ELSE EmptyMap)
    ELSE (IF f = "replicas" THEN r ELSE Tag(r))

Restrict(f, S) == [x \in S |-> f[x]]

\* Update bodies naming at most MaxNamed fields; {} is among them.
UpdateBodies(kind, r) ==
    UNION {{[f \in S |-> BodyVal(f, r, fl[f])] : fl \in [S -> {"zero", "tag"}]} :
           S \in {T \in SUBSET BodyFields(kind) : Cardinality(T) <= MaxNamed}}

UpdateInputs(kind, r) == BadInputs \cup {Json(b) : b \in UpdateBodies(kind, r)}

\* The fields marked binding:"required" in each create handler's request struct.
Required(kind) ==
    CASE kind = "deployment" -> {"name", "image", "replicas"}
      [] kind = "service"    -> {"name", "type", "ports", "selector"}
      [] kind = "configmap"  -> {"name"}
      [] kind = "secret"     -> {"name"}
      [] kind = "ingress"    -> {"name", "rules"}

CreateFields(kind) ==
    CASE kind = "deployment" -> {"name", "image", "replicas", "containerPort",
                                 "labels", "annotations", "envVars"}
      [] kind = "service"    -> {"name", "type", "ports", "selector", "labels",
                                 "externalIPs"}
      [] kind = "configmap"  -> {"name", "data", "binaryData", "labels", "annotations"}
      [] kind = "secret"     -> {"name", "type", "stringData", "labels", "annotations"}
      [] kind = "ingress"    -> {"name", "className", "rules", "tls", "annotations",
                                 "labels"}

FullBody(kind, r) ==
    [f \in CreateFields(kind) |-> IF f = "replicas" THEN r ELSE Tag(r)]

\* A complete body, for a service also one whose selector has two entries, a
\* body lacking one required field, a body holding the zero value in one
\* required field.
CreateBodies(kind, r) ==
    {FullBody(kind, r)}
    \cup (IF kind = "service"
          THEN {[FullBody(kind, r) EXCEPT !["selector"] = [k \in Keys |-> r]]}
          ELSE {})
    \cup {Restrict(FullBody(kind, r), CreateFields(kind) \ {f}) : f \in Required(kind)}
    \cup {[FullBody(kind, r) EXCEPT ![f] = ZeroValue(f)] : f \in Required(kind)}

CreateInputs(kind, r) == BadInputs \cup {Json(b) : b \in CreateBodies(kind, r)}

\* The required fields that are slices or maps: the validator's "required"
\* fails on them only when they are nil, and a field present in the body,
\* empty or not, is not nil.
NilOnly == {"ports", "selector", "rules"}

\* The validator's "required" on a field present in the body: it fails on the
\* zero value of a number or a string.
IsZero(v, f) ==
    IF f = "replicas" THEN v = 0
    ELSE IF f \in NilOnly THEN FALSE
    ELSE IsEmpty(v)

\* A binding that accepts a missing or malformed body as the empty one: C8
\* must fail with it.
ShouldBindJSONLenient(input, required) ==
    \A f \in required : Has(input.body, f) /\ ~IsZero(input.body[f], f)

\* gin's ShouldBindJSON: io.EOF on a missing body, a syntax error on a malformed
\* one, and the validator's "required" failing on an absent or zero-valued field.
ShouldBindJSON(input, required) ==
    /\ input.shape = "json"
    /\ \A f \in required : Has(input.body, f) /\ ~IsZero(input.body[f], f)

\* ------------------------------------------------------------- remote API
\* What the control plane may answer to each verb, given what it holds.  Any
\* call may also fail for authorisation or transport reasons.
Faults == {Forbidden, Transport}

GetOutcomes(kind) ==
    (IF remote[kind].present THEN {OkOutcome} ELSE {NotFound}) \cup Faults

ListOutcomes == {OkOutcome} \cup Faults

CreateOutcomes(kind) ==
    (IF remote[kind].present THEN {AlreadyExists} ELSE {OkOutcome}) \cup Faults

UpdateOutcomes(kind) ==
    (IF remote[kind].present THEN {OkOutcome, Conflict} ELSE {NotFound}) \cup Faults

DeleteOutcomes(kind) ==
    (IF remote[kind].present THEN {OkOutcome} ELSE {NotFound}) \cup Faults

\* The items a List call returns.
ListItems(kind) == IF remote[kind].present THEN <<remote[kind].obj>> ELSE <<>>

\* One call of the clientset, with what the remote answered.
Call(verb, resource, outcome) ==
    [verb |-> verb, resource |-> resource, ok |-> outcome.ok, err |-> outcome]

\* --------------------------------------------------------- error handling
\* The error HandleError returns: the remote error re-wrapped with the local
\* operation name, with code and reason when it is a *errors.StatusError.
\* A wrapping that keeps the operation and the text and drops the remote code
\* and reason: C12 must fail with it.
HandleErrorBare(err, operation) ==
    [op |-> operation, cause |-> err.reason, code |-> 0, reason |-> ""]

HandleError(err, operation) ==
    IF err.typed
    THEN [op |-> operation, cause |-> err.reason, code |-> err.code, reason |-> err.reason]
    ELSE [op |-> operation, cause |-> err.reason, code |-> 0, reason |-> ""]

BindError(input) ==
    [op |-> "Invalid request format", cause |-> input.shape, code |-> 0, reason |-> ""]

\* A status taken from the remote error's code: C7 must fail with it.
RemoteErrorStatusFromCode(err) == IF err.typed THEN err.code ELSE 500

\* The status a handler answers a failed remote call with.
RemoteErrorStatus(err) == 500

\* An error answer that leaves the success flag out: C17 must fail with it.
ErrorJSONUnflagged(status, e) == [status |-> status, body |-> [error |-> e]]

\* c.JSON(status, gin.H{"success": false, "error": ...})
ErrorJSON(status, e) == [status |-> status, body |-> [success |-> FALSE, error |-> e]]

\* c.JSON(status, gin.H{"success": true, "data": ...})
DataJSON(status, d) == [status |-> status, body |-> [success |-> TRUE, data |-> d]]

\* c.JSON(http.StatusOK, gin.H{"success": true, "message": ...})
MessageJSON(m) == [status |-> 200, body |-> [success |-> TRUE, message |-> m]]

\* base.NewSuccessResponse: APIResponse{Success: true, Data: data}
NewSuccessResponse(d) == [success |-> TRUE, data |-> d]

NoResponse == [status |-> 0, body |-> [success |-> FALSE]]

\* ------------------------------------------------------------ projections
Project(kind, o, fields) == [name |-> ObjName, namespace |-> "ns"] @@ Restrict(o, fields)

SecretListItem(o) == Project("secret", o, {"labels"}) @@ [type |-> "Opaque"]

SecretGetData(o) ==
    Project("secret", o, {"labels", "annotations"}) @@ [type |-> "Opaque"]

\* A list item that also carries the object's data: C1 must fail with it.
ConfigMapListItemWithData(o) ==
    Project("configmap", o, {"labels", "data"})
    @@ [dataCount |-> Cardinality(DOMAIN o["data"])]

ConfigMapListItem(o) ==
    Project("configmap", o, {"labels"}) @@ [dataCount |-> Cardinality(DOMAIN o["data"])]

ConfigMapGetData(o) ==
    Project("configmap", o, {"data", "binaryData", "labels", "annotations"})

\* ----------------------------------------------------- secret API module
\* The objects the clientset hands to SecretAPI carry data and, when a server
\* echoes it, stringData; SecretAPI blanks both before returning.
WithStringData(o, sd) == o @@ [stringData |-> sd]

Redact(o) == [o EXCEPT !["data"] = EmptyMap, !["stringData"] = EmptyMap]

SecretAPIListSecrets(items) == [i \in 1..Len(items) |-> Redact(items[i])]

SecretAPIGetSecret(o) == Redact(o)

SecretAPICreateSecret(o) == Redact(o)

\* An UpdateSecret that returns the server's object as it is: C6 must fail
\* with it.
SecretAPIUpdateSecretUnredacted(o) == o

SecretAPIUpdateSecret(o) == Redact(o)

SecretAPIGetSecretKeys(o) == NewSuccessResponse([keys |-> DOMAIN o["data"], type |-> "Opaque"])

\* --------------------------------------------- update handlers: the overlay
\* A field guarded by "!= nil" (or a non-nil pointer) is applied whenever the
\* body names it; one guarded by len(...) > 0 or != "" only when it is non-empty.
NonNil(b, f) == Has(b, f)

NonEmpty(b, f) == Has(b, f) /\ ~IsEmpty(b[f])

\* An overlay that adds the body's replica count to the count read: C29 must
\* fail with it.
UpdateDeploymentOverlayAdding(existing, b) ==
    [existing EXCEPT
        !["image"]       = IF NonEmpty(b, "image") THEN b["image"] ELSE @,
        !["replicas"]    = IF NonNil(b, "replicas") THEN @ + b["replicas"] ELSE @,
        !["labels"]      = IF NonNil(b, "labels") THEN b["labels"] ELSE @,
        !["annotations"] = IF NonNil(b, "annotations") THEN b["annotations"] ELSE @,
        !["envVars"]     = IF NonEmpty(b, "envVars") THEN b["envVars"] ELSE @]

UpdateDeploymentOverlay(existing, b) ==
    [existing EXCEPT
        !["image"]       = IF NonEmpty(b, "image") THEN b["image"] ELSE @,
        !["replicas"]    = IF NonNil(b, "replicas") THEN b["replicas"] ELSE @,
        !["labels"]      = IF NonNil(b, "labels") THEN b["labels"] ELSE @,
        !["annotations"] = IF NonNil(b, "annotations") THEN b["annotations"] ELSE @,
        !["envVars"]     = IF NonEmpty(b, "envVars") THEN b["envVars"] ELSE @]

UpdateServiceOverlay(existing, b) ==
    [existing EXCEPT
        !["ports"]       = IF NonEmpty(b, "ports") THEN b["ports"] ELSE @,
        !["selector"]    = IF NonNil(b, "selector") THEN b["selector"] ELSE @,
        !["labels"]      = IF NonNil(b, "labels") THEN b["labels"] ELSE @,
        !["externalIPs"] = IF NonNil(b, "externalIPs") THEN b["externalIPs"] ELSE @]

\* An overlay that clears the labels a body does not name: C3 must fail with it.
UpdateConfigMapOverlayClearing(existing, b) ==
    [existing EXCEPT
        !["data"]        = IF NonNil(b, "data") THEN b["data"] ELSE @,
        !["binaryData"]  = IF NonNil(b, "binaryData") THEN b["binaryData"] ELSE @,
        !["labels"]      = IF NonNil(b, "labels") THEN b["labels"] ELSE EmptyMap,
        !["annotations"] = IF NonNil(b, "annotations") THEN b["annotations"] ELSE @]

UpdateConfigMapOverlay(existing, b) ==
    [existing EXCEPT
        !["data"]        = IF NonNil(b, "data") THEN b["data"] ELSE @,
        !["binaryData"]  = IF NonNil(b, "binaryData") THEN b["binaryData"] ELSE @,
        !["labels"]      = IF NonNil(b, "labels") THEN b["labels"] ELSE @,
        !["annotations"] = IF NonNil(b, "annotations") THEN b["annotations"] ELSE @]

\* existing.Data[k] = []byte(v) for each key of stringData
UpdateSecretOverlay(existing, b) ==
    [existing EXCEPT
        !["data"]        = IF NonNil(b, "stringData") THEN Merge(@, b["stringData"]) ELSE @,
        !["labels"]      = IF NonNil(b, "labels") THEN b["labels"] ELSE @,
        !["annotations"] = IF NonNil(b, "annotations") THEN b["annotations"] ELSE @]

\* An overlay that applies an empty class name, rule list or TLS list: C4 must
\* fail with it.
UpdateIngressOverlayUnguarded(existing, b) ==
    [existing EXCEPT
        !["className"]   = IF NonNil(b, "className") THEN b["className"] ELSE @,
        !["rules"]       = IF NonNil(b, "rules") THEN b["rules"] ELSE @,
        !["tls"]         = IF NonNil(b, "tls") THEN b["tls"] ELSE @,
        !["labels"]      = IF NonNil(b, "labels") THEN b["labels"] ELSE @,
        !["annotations"] = IF NonNil(b, "annotations") THEN b["annotations"] ELSE @]

UpdateIngressOverlay(existing, b) ==
    [existing EXCEPT
        !["className"]   = IF NonEmpty(b, "className") THEN b["className"] ELSE @,
        !["rules"]       = IF NonEmpty(b, "rules") THEN b["rules"] ELSE @,
        !["tls"]         = IF NonEmpty(b, "tls") THEN b["tls"] ELSE @,
        !["labels"]      = IF NonNil(b, "labels") THEN b["labels"] ELSE @,
        !["annotations"] = IF NonNil(b, "annotations") THEN b["annotations"] ELSE @]

Overlay(kind, existing, b) ==
    CASE kind = "deployment" -> UpdateDeploymentOverlay(existing, b)
      [] kind = "service"    -> UpdateServiceOverlay(existing, b)
      [] kind = "configmap"  -> UpdateConfigMapOverlay(existing, b)
      [] kind = "secret"     -> UpdateSecretOverlay(existing, b)
      [] kind = "ingress"    -> UpdateIngressOverlay(existing, b)

\* The object a create handler builds from its request struct: every field of
\* the body it copies, Go's zero value elsewhere.
NewObject(kind, b) ==
    [g \in Groups(kind) \cup StatusGroups(kind)
            \cup (IF kind = "secret" THEN {"stringData"} ELSE {}) |->
        IF g = "data" /\ kind = "secret" THEN EmptyMap
        ELSE IF Has(b, g) THEN b[g] ELSE ZeroValue(g)]

\* What the control plane stores for a submitted object: the object as sent
\* (an Update replaces the whole object); a secret's stringData is folded into
\* its data, and the status of an ingress stays the one the control plane wrote.
Stored(kind, submitted) ==
    IF kind = "secret"
    THEN [g \in Groups(kind) |->
            IF g = "data" THEN Merge(submitted["data"], submitted["stringData"])
            ELSE submitted[g]]
    ELSE IF kind = "ingress"
    THEN [submitted EXCEPT !["loadBalancer"] = remote["ingress"].obj["loadBalancer"]]
    ELSE submitted

\* What a Get or List returns for a stored object.
Fetched(kind, o) == IF kind = "secret" THEN WithStringData(o, EmptyMap) ELSE o

\* ------------------------------------------------------------- pods, usage
\* What a volume source, an envFrom entry or an env valueFrom points at; kind
\* "none" is a source of another type (emptyDir, fieldRef, a literal value).
Ref(kind, name) == [kind |-> kind, name |-> name]

NoRef == Ref("none", "")

Refs == {NoRef} \cup {Ref(k, n) : k \in {"configmap", "secret"}, n \in Names}

\* A match on the name alone, whatever the kind of the source: C5 must fail
\* with it.
MatchesAnyKind(ref, kind, name) == ref.kind # "none" /\ ref.name = name

Matches(ref, kind, name) == ref.kind = kind /\ ref.name = name

\* for _, volume := range pod.Spec.Volumes: append volume.Name on a match
RECURSIVE VolumeHits(_, _, _)
VolumeHits(volumes, kind, name) ==
    IF volumes = <<>> THEN <<>>
    ELSE (IF Matches(Head(volumes).src, kind, name) THEN <<Head(volumes).name>> ELSE <<>>)
         \o VolumeHits(Tail(volumes), kind, name)

\* for _, env := range container.EnvFrom: append container.Name on a match
RECURSIVE EnvFromHits(_, _, _, _)
EnvFromHits(envFrom, cname, kind, name) ==
    IF envFrom = <<>> THEN <<>>
    ELSE (IF Matches(Head(envFrom), kind, name) THEN <<cname>> ELSE <<>>)
         \o EnvFromHits(Tail(envFrom), cname, kind, name)

\* for _, env := range container.Env: append "container:variable" on a match
RECURSIVE EnvVarHits(_, _, _, _)
EnvVarHits(env, cname, kind, name) ==
    IF env = <<>> THEN <<>>
    ELSE (IF Matches(Head(env).ref, kind, name) THEN <<<<cname, Head(env).name>>>> ELSE <<>>)
         \o EnvVarHits(Tail(env), cname, kind, name)

RECURSIVE ContainersEnvFrom(_, _, _)
ContainersEnvFrom(containers, kind, name) ==
    IF containers = <<>> THEN <<>>
    ELSE EnvFromHits(Head(containers).envFrom, Head(containers).name, kind, name)
         \o ContainersEnvFrom(Tail(containers), kind, name)

RECURSIVE ContainersEnvVars(_, _, _)
ContainersEnvVars(containers, kind, name) ==
    IF containers = <<>> THEN <<>>
    ELSE EnvVarHits(Head(containers).env, Head(containers).name, kind, name)
         \o ContainersEnvVars(Tail(containers), kind, name)

\* usageDetails: a key exists only once something was appended under it.
UsageDetails(pod, kind, name) ==
    LET all == [volumeMounts |-> VolumeHits(pod.volumes, kind, name),
                envFrom      |-> ContainersEnvFrom(pod.containers, kind, name),
                envVars      |-> ContainersEnvVars(pod.containers, kind, name)]
    IN  Restrict(all, {k \in DOMAIN all : all[k] # <<>>})

\* usingPods: one entry per pod for which isUsed was set.
RECURSIVE UsingPods(_, _, _)
UsingPods(podList, kind, name) ==
    IF podList = <<>> THEN <<>>
    ELSE LET pod   == Head(podList)
             usage == UsageDetails(pod, kind, name)
         IN  (IF DOMAIN usage # {}
              THEN <<[name |-> pod.name, status |-> pod.phase, usage |-> usage]>>
              ELSE <<>>)
             \o UsingPods(Tail(podList), kind, name)

\* A report that counts every pod scanned: C22 must fail with it.
ConfigMapAPIGetConfigMapUsageCountingAll(podList, name) ==
    LET usingPods == UsingPods(podList, "configmap", name)
    IN  NewSuccessResponse([podsUsingConfigMap |-> usingPods, totalPods |-> Len(podList)])

ConfigMapAPIGetConfigMapUsage(podList, name) ==
    LET usingPods == UsingPods(podList, "configmap", name)
    IN  NewSuccessResponse([podsUsingConfigMap |-> usingPods, totalPods |-> Len(usingPods)])

SecretAPIGetSecretUsage(podList, name) ==
    LET usingPods == UsingPods(podList, "secret", name)
    IN  NewSuccessResponse([podsUsingSecret |-> usingPods, totalPods |-> Len(usingPods)])

\* The size of a pod list: its pods, volumes, containers and environment entries.
RECURSIVE ContainersSize(_)
ContainersSize(containers) ==
    IF containers = <<>> THEN 0
    ELSE 1 + Len(Head(containers).envFrom) + Len(Head(containers).env)
         + ContainersSize(Tail(containers))

RECURSIVE PodsSize(_)
PodsSize(podList) ==
    IF podList = <<>> THEN 0
    ELSE 1 + Len(Head(podList).volumes) + ContainersSize(Head(podList).containers)
         + PodsSize(Tail(podList))

Phases == {"Running", "Pending", "Succeeded", "Failed", "Unknown"}

\* The pods of the namespace in a run of the facade: one pod mounting the
\* configmap and importing the secret, one pod referencing neither.
InitialPods ==
    <<[name |-> 1, phase |-> "Running",
       volumes |-> <<[name |-> 1, src |-> Ref("configmap", ObjName)]>>,
       containers |-> <<[name |-> 1, envFrom |-> <<Ref("secret", ObjName)>>,
                         env |-> <<>>]>>],
      [name |-> 2, phase |-> "Pending", volumes |-> <<>>,
       containers |-> <<[name |-> 1, envFrom |-> <<>>, env |-> <<>>]>>]>>

\* The status counters GetNamespaceMetrics answers with: four keys preset to 0,
\* then the key string(pod.Status.Phase) incremented for every pod.
NamespaceMetrics(podList) ==
    LET phaseOf == {podList[i].phase : i \in 1..Len(podList)}
    IN  NewSuccessResponse(
            [podCount |-> Len(podList),
             status   |-> [k \in {"running", "pending", "failed", "succeeded"} \cup phaseOf |->
                              Cardinality({i \in 1..Len(podList) : podList[i].phase = k})]])

\* ------------------------------------------------- strconv.ParseInt(s, 10, 32)
Int32Max == 2147483647

DigitChars == <<"0", "1", "2", "3", "4", "5", "6", "7", "8", "9">>

IsDigit(c) == \E i \in 1..10 : DigitChars[i] = c

DigitVal(c) == (CHOOSE i \in 1..10 : DigitChars[i] = c) - 1

RECURSIVE Numeral(_)
Numeral(n) ==
    IF n < 10 THEN <<DigitChars[n + 1]>>
    ELSE Numeral(n \div 10) \o <<DigitChars[(n % 10) + 1]>>

\* The digits' value, negated, or 1 once it would leave the 32-bit range.
RECURSIVE ParseDigits(_, _)
ParseDigits(digits, acc) ==
    IF digits = <<>> THEN acc
    ELSE LET d == DigitVal(Head(digits))
         IN  IF acc < -(Int32Max \div 10) \/ (acc = -(Int32Max \div 10) /\ d > 8)
             THEN 1
             ELSE ParseDigits(Tail(digits), acc * 10 - d)

ParseInt(s) ==
    LET neg    == s # <<>> /\ Head(s) = "-"
        digits == IF s # <<>> /\ Head(s) \in {"-", "+"} THEN Tail(s) ELSE s
    IN  IF digits = <<>> \/ \E i \in 1..Len(digits) : ~IsDigit(digits[i])
        THEN [ok |-> FALSE, val |-> 0, why |-> "syntax"]
        ELSE LET m == ParseDigits(digits, 0)
             IN  IF m = 1 \/ (~neg /\ m = -Int32Max - 1)
                 THEN [ok |-> FALSE, val |-> 0, why |-> "range"]
                 ELSE [ok |-> TRUE, val |-> IF neg THEN m ELSE -m, why |-> ""]

\* The replicas query values tried: counts in range, a negative count, the empty
\* (or missing) value, text that is no number, and a number beyond 32 bits.
ScaleTexts ==
    {Numeral(n) : n \in 0..MaxReplicas}
    \cup {<<"-", "1">>, <<>>, <<"x">>, <<"1", "x">>,
          <<"2", "1", "4", "7", "4", "8", "3", "6", "4", "8">>}

Query(text) == [shape |-> "query", body |-> [replicas |-> text]]

\* ---------------------------------------------------------------- requests
Idle == [pc |-> "new", handler |-> "", input |-> NoInput, existing |-> EmptyMap,
         at |-> 0, calls |-> <<>>]

Done == [Idle EXCEPT !.pc = "done"]

NoApi == EmptyMap

JSON(status, body) == [status |-> status, body |-> body]

\* No answer given yet.
NoAnswer == [given |-> EmptyMap, resp |-> [status |-> 0, body |-> [success |-> FALSE]]]

\* A request whose line no middleware has looked at, its writer without
\* headers.
NoWriter == [line |-> [method |-> "", path |-> <<>>], headers |-> EmptyMap]

\* The history of answers is kept only where answers are compared: the first
\* answer with what it was given on, whether a remote call has failed since,
\* and whether the latest answer was given on the same and was the same. The
\* request line and the headers of each request's writer are kept only where
\* the middleware is a step of its own.
NoHistory == [on |-> FALSE, more |-> 0, first |-> NoAnswer, failedSince |-> FALSE,
              sameGiven |-> FALSE, sameAnswer |-> FALSE,
              writer |-> [r \in 1..NReq |-> NoWriter]]

\* The Endpoints object the control plane derives from a service: it exists
\* with the service, and holds addresses (those the selector picks) only
\* while the namespace has pods to back it.
EndpointsFor(svc) ==
    [present |-> svc.present,
     addrs   |-> IF svc.present /\ pods # <<>> THEN svc.obj["selector"] ELSE EmptyMap]

InitWith(podList) ==
    /\ pods = podList
    /\ remote = [k \in Kinds |-> Present(InitialObject(k))]
    /\ endpoints = EndpointsFor(Present(InitialObject("service")))
    /\ req = [r \in Reqs |-> Idle]
    /\ last = [rid |-> 0, handler |-> "", input |-> NoInput, calls |-> <<>>,
               api |-> NoApi, resp |-> NoResponse]
    /\ wlog = <<>>
    /\ copresent = {<<Present(InitialObject("service")),
                      EndpointsFor(Present(InitialObject("service")))>>}

\* ------------------------------------------------------------- the process
\* The environment main starts in: whether the kubeconfig file exists (and
\* can be loaded), whether K8S_HOST and K8S_TOKEN are set, and which of the two
\* NewClient functions the binary was built with.
Environments ==
    [kubeconfig : {"absent", "invalid", "valid"}, host : BOOLEAN, token : BOOLEAN,
     build : {"token", "kubeconfig"}]

\* main before its first statement.
Started(env) ==
    [phase |-> "start", exit |-> "", env |-> env, loaded |-> FALSE, client |-> FALSE,
     probes |-> 0, healthy |-> FALSE]

\* main blocked on <-quit with the listener accepting.
Serving(env) ==
    [Started(env) EXCEPT !.phase = "serving", !.loaded = TRUE, !.client = TRUE,
                         !.probes = 1, !.healthy = TRUE]

\* logger.Fatalf: os.Exit(1) at once.
Fatalf(p) == [p EXCEPT !.phase = "exited", !.exit = "fatal"]

\* An environment every build starts in: the file and both variables.
FullEnv == [kubeconfig |-> "valid", host |-> TRUE, token |-> TRUE, build |-> "token"]

\* The server as it stands once main is serving, with the remote as found.
Init == InitWith(InitialPods) /\ proc = Serving(FullEnv) /\ seen = NoHistory

\* The handlers run while the process lives.
Running == proc.phase \in {"serving", "draining"}

\* Request r has made its first remote call and not yet answered.
InFlight(r) == Running /\ req[r].pc = "read"

\* Requests are numbered in their order of arrival; the listener accepts them
\* from ListenAndServe until Shutdown closes it.
Arrives(r) ==
    /\ proc.phase = "serving"
    /\ req[r].pc = "new" /\ (IF r = 1 THEN TRUE ELSE req[r - 1].pc # "new")

\* What an answer is given on: the request, what the remote answered to each
\* of its calls, the copy its first call read, and what the remote holds.
Given(r, handler, input, calls) ==
    [handler |-> handler, input |-> input,
     outcomes |-> [i \in 1..Len(calls) |-> calls[i].err],
     existing |-> req[r].existing,
     remote |-> remote, endpoints |-> endpoints, pods |-> pods]

\* Two answers were given on the same.
SameGiven(a, b) ==
    /\ a.handler = b.handler
    /\ a.input = b.input
    /\ a.outcomes = b.outcomes
    /\ a.existing = b.existing
    /\ a.remote = b.remote /\ a.endpoints = b.endpoints /\ a.pods = b.pods

Record(r, handler, input, calls, resp) ==
    LET given == Given(r, handler, input, calls)
        same  == SameGiven(given, seen.first.given)
    IN  IF ~seen.on THEN seen
        ELSE IF seen.first = NoAnswer
        THEN [seen EXCEPT !.first = [given |-> given, resp |-> resp]]
        ELSE [seen EXCEPT !.failedSince = @ \/ resp.status = 500,
                          !.sameGiven   = same,
                          !.sameAnswer  = IF same THEN resp = seen.first.resp ELSE FALSE]

\* A facade that answers 503 without looking once a remote call has failed:
\* C18 must fail with it.
FinishBreaker(r, handler, input, calls, api, resp) ==
    LET tripped == seen.failedSince
        answer  == IF tripped THEN [status |-> 503, body |-> [success |-> FALSE]] ELSE resp
    IN  /\ req' = [req EXCEPT ![r] = Done]
        /\ last' = [rid |-> r, handler |-> handler, input |-> input, calls |-> calls,
                    api |-> api, resp |-> answer]
        /\ seen' = Record(r, handler, input, calls, answer)

\* The handler writes its response and returns.
Finish(r, handler, input, calls, api, resp) ==
    /\ req' = [req EXCEPT ![r] = Done]
    /\ last' = [rid |-> r, handler |-> handler, input |-> input, calls |-> calls,
                api |-> api, resp |-> resp]
    /\ seen' = Record(r, handler, input, calls, resp)

\* An error path that has issued the failed call a second time: C9 must fail
\* with it.
FailAfterRetry(r, handler, input, calls, err, operation) ==
    Finish(r, handler, input, Append(calls, calls[Len(calls)]), NoApi,
           ErrorJSON(500, HandleError(err, operation)))

\* if err != nil { c.JSON(http.StatusInternalServerError, ...); return }
Fail(r, handler, input, calls, err, operation) ==
    Finish(r, handler, input, calls, NoApi,
           ErrorJSON(RemoteErrorStatus(err), HandleError(err, operation)))

\* if err := c.ShouldBindJSON(...); err != nil { c.JSON(http.StatusBadRequest, ...) }
Reject(r, handler, input) ==
    Finish(r, handler, input, <<>>, NoApi, ErrorJSON(400, BindError(input)))

Frame == UNCHANGED <<remote, endpoints, pods, wlog, copresent, proc>>

\* An accepted write: the remote object replaced, the history extended with
\* the write, the copy it was built on and the length of the history when
\* that copy was read.
Commit(r, handler, kind, verb, input, snap, post) ==
    /\ remote' = [remote EXCEPT ![kind] = post]
    /\ wlog' = Append(wlog, [rid |-> r, handler |-> handler, kind |-> kind, verb |-> verb,
                             body |-> input.body, snap |-> snap,
                             at |-> IF req[r].pc = "read" THEN req[r].at ELSE Len(wlog),
                             pre |-> remote[kind], post |-> post])
    /\ copresent' = copresent \cup {<<remote'["service"], endpoints>>}
    /\ UNCHANGED <<endpoints, pods, proc>>

\* What the server returns for an accepted create or update: the stored
\* object; for a secret, with or without the stringData it was sent.
Returned(kind, submitted) ==
    IF kind = "secret"
    THEN {WithStringData(Stored(kind, submitted), sd) :
            sd \in {EmptyMap, submitted["stringData"]}}
    ELSE {Stored(kind, submitted)}

\* ------------------------------------------------------------ ingress status
\* getLoadBalancerStatus: one map per address of status.loadBalancer.ingress.
\* A status that never reports an address: C21 must fail with it.
getLoadBalancerStatusNone(lb) == EmptyMap

getLoadBalancerStatus(lb) ==
    [k \in DOMAIN lb |-> [ip |-> lb[k], hostname |-> k]]

\* getIngressRules: one map per rule, its host and its paths.
getIngressRules(rules) ==
    [k \in DOMAIN rules |-> [host |-> k, paths |-> rules[k]]]

\* getTLSStatus: one map per TLS entry, its hosts and its secret name.
getTLSStatus(tls) ==
    [k \in DOMAIN tls |-> [hosts |-> k, secretName |-> tls[k]]]

\* The status map IngressAPI.GetIngressStatus builds from the ingress fetched.
IngressStatus(ingress) ==
    NewSuccessResponse([loadBalancer |-> getLoadBalancerStatus(ingress["loadBalancer"]),
                        rules        |-> getIngressRules(ingress["rules"]),
                        tls          |-> getTLSStatus(ingress["tls"]),
                        class        |-> ingress["className"],
                        annotations  |-> ingress["annotations"]])

\* ------------------------------------------------------ what handlers answer
\* The data of a create or update answer, read off the object the API returned.
WriteData(kind, o) ==
    CASE kind = "configmap" -> Project(kind, o, {}) @@ [dataCount |-> Cardinality(DOMAIN o["data"])]
      [] kind = "secret"    -> Project(kind, o, {}) @@ [type |-> "Opaque"]
      [] kind = "ingress"   -> Project(kind, o, {"className", "rules"})
      [] OTHER              -> Project(kind, o, {})

Created(kind, o) == DataJSON(201, WriteData(kind, o))

Updated(kind, o) == DataJSON(200, WriteData(kind, o) @@ [status |-> "updated"])

PodItem(pod) == [name |-> pod.name, namespace |-> "ns", status |-> pod.phase]

\* What the API method the handler calls returns, given what the clientset
\* returned to it for the call of that verb: SecretAPI redacts, the status,
\* keys, usage and metrics methods build their report, every other method
\* returns the remote object (or list) as it is.
APIResult(handler, verb, input, x) ==
    CASE handler = "ListSecrets"   -> SecretAPIListSecrets(x)
      [] handler = "GetSecret"     -> SecretAPIGetSecret(x)
      [] handler = "GetSecretKeys" -> SecretAPIGetSecretKeys(x)
      [] handler = "CreateSecret"  -> SecretAPICreateSecret(x)
      [] handler = "UpdateSecret"  ->
           IF verb = "get" THEN SecretAPIGetSecret(x) ELSE SecretAPIUpdateSecret(x)
      [] handler = "GetDeploymentStatus" ->
           NewSuccessResponse([replicas |-> [desired |-> x["replicas"]]])
      [] handler = "GetIngressStatus" -> IngressStatus(x)
      [] handler = "GetConfigMapUsage" -> ConfigMapAPIGetConfigMapUsage(x, input.body["name"])
      [] handler = "GetSecretUsage" -> SecretAPIGetSecretUsage(x, input.body["name"])
      [] handler = "GetNamespaceMetrics" -> NamespaceMetrics(x)
      [] OTHER -> x

\* The entry a list handler makes of one object of the list.
ListItem(handler, o) ==
    CASE handler = "ListDeployments" -> Project("deployment", o, {"labels"})
      [] handler = "ListServices"    -> Project("service", o, {"ports", "selector"})
      [] handler = "ListConfigMaps"  -> ConfigMapListItem(o)
      [] handler = "ListSecrets"     -> SecretListItem(o)
      [] handler = "ListIngresses"   -> Project("ingress", o, {"className", "rules", "labels"})
      [] handler = "ListPods"        -> PodItem(o)

\* The response a handler writes when its API method returned api.
Respond(handler, api) ==
    CASE handler \in {"ListDeployments", "ListServices", "ListConfigMaps", "ListSecrets",
                      "ListIngresses", "ListPods"} ->
           DataJSON(200, [i \in 1..Len(api) |-> ListItem(handler, api[i])])
      [] handler = "GetDeployment" ->
           DataJSON(200, Project("deployment", api, {"labels", "annotations", "image", "envVars"}))
      [] handler = "GetService" ->
           DataJSON(200, Project("service", api, {"ports", "selector", "labels"}))
      [] handler = "GetConfigMap" -> DataJSON(200, ConfigMapGetData(api))
      [] handler = "GetSecret"    -> DataJSON(200, SecretGetData(api))
      [] handler = "GetIngress"   -> DataJSON(200, Project("ingress", api, Groups("ingress")))
      [] handler = "GetPod"       -> DataJSON(200, PodItem(api))
      [] handler = "GetPodMetrics" -> JSON(200, NewSuccessResponse([phase |-> api.phase]))
      [] handler \in {"GetDeploymentStatus", "GetIngressStatus", "GetSecretKeys",
                      "GetConfigMapUsage", "GetSecretUsage", "GetNamespaceMetrics"} ->
           JSON(200, api)
      [] handler = "CreateDeployment" -> Created("deployment", api)
      [] handler = "CreateService"    -> Created("service", api)
      [] handler = "CreateConfigMap"  -> Created("configmap", api)
      [] handler = "CreateSecret"     -> Created("secret", api)
      [] handler = "CreateIngress"    -> Created("ingress", api)
      [] handler = "UpdateDeployment" -> Updated("deployment", api)
      [] handler = "UpdateService"    -> Updated("service", api)
      [] handler = "UpdateConfigMap"  -> Updated("configmap", api)
      [] handler = "UpdateSecret"     -> Updated("secret", api)
      [] handler = "UpdateIngress"    -> Updated("ingress", api)

\* ------------------------------------------------- handlers of one remote call
\* api.List; on success the handler answers with one item per remote object.
ListStep(r, handler, kind, operation) ==
    /\ Arrives(r)
    /\ \E out \in ListOutcomes :
         LET calls == <<Call("list", kind, out)>>
             items == ListItems(kind)
             api   == APIResult(handler, "list", NoInput,
                                [i \in 1..Len(items) |-> Fetched(kind, items[i])])
         IN  IF out.ok
             THEN Finish(r, handler, NoInput, calls, api, Respond(handler, api))
             ELSE Fail(r, handler, NoInput, calls, out, operation)
    /\ Frame

\* api.Get (or a method built on it); on success the handler answers with
\* what it makes of the result.
GetStep(r, handler, kind, operation) ==
    /\ Arrives(r)
    /\ \E out \in GetOutcomes(kind) :
         LET calls == <<Call("get", kind, out)>>
             api   == APIResult(handler, "get", NoInput, Fetched(kind, remote[kind].obj))
         IN  IF out.ok
             THEN Finish(r, handler, NoInput, calls, api, Respond(handler, api))
             ELSE Fail(r, handler, NoInput, calls, out, operation)
    /\ Frame

\* ShouldBindJSON, build the object, api.Create.
CreateStep(r, handler, kind, operation) ==
    /\ Arrives(r)
    /\ \E input \in CreateInputs(kind, r) :
         IF ~ShouldBindJSON(input, Required(kind))
         THEN Reject(r, handler, input) /\ Frame
         ELSE \E out \in CreateOutcomes(kind) :
                LET calls     == <<Call("create", kind, out)>>
                    submitted == NewObject(kind, input.body)
                IN  IF out.ok
                    THEN /\ \E result \in Returned(kind, submitted) :
                              LET api == APIResult(handler, "create", input, result)
                              IN  Finish(r, handler, input, calls, api, Respond(handler, api))
                         /\ Commit(r, handler, kind, "create", input, ZeroObject(kind),
                                   Present(Stored(kind, submitted)))
                    ELSE Fail(r, handler, input, calls, out, operation) /\ Frame

\* api.Delete; the answer carries a message, not data.
DeleteStep(r, handler, kind, operation) ==
    /\ Arrives(r)
    /\ \E out \in DeleteOutcomes(kind) :
         LET calls == <<Call("delete", kind, out)>>
         IN  IF out.ok
             THEN /\ Finish(r, handler, NoInput, calls, NoApi, MessageJSON("deleted"))
                  /\ Commit(r, handler, kind, "delete", NoInput, ZeroObject(kind), Absent(kind))
             ELSE Fail(r, handler, NoInput, calls, out, operation) /\ Frame

\* ------------------------------------------------ the read-modify-write updates
\* A first half that goes on to the write whatever the read returned: C24 must
\* fail with it.
UpdateReadUnchecked(r, handler, kind, operation) ==
    /\ Arrives(r)
    /\ \E input \in UpdateInputs(kind, r) :
         IF ~ShouldBindJSON(input, {})
         THEN Reject(r, handler, input)
         ELSE \E out \in GetOutcomes(kind) :
                /\ req' = [req EXCEPT ![r] =
                             [pc |-> "read", handler |-> handler, input |-> input,
                              existing |-> APIResult(handler, "get", input,
                                                     Fetched(kind, remote[kind].obj)),
                              at |-> Len(wlog), calls |-> <<Call("get", kind, out)>>]]
                /\ UNCHANGED <<last, seen>>
    /\ Frame

\* First half: ShouldBindJSON, then api.Get of the object to update.
UpdateRead(r, handler, kind, operation) ==
    /\ Arrives(r)
    /\ \E input \in UpdateInputs(kind, r) :
         IF ~ShouldBindJSON(input, {})
         THEN Reject(r, handler, input)
         ELSE \E out \in GetOutcomes(kind) :
                LET calls == <<Call("get", kind, out)>>
                IN  IF out.ok
                    THEN /\ req' = [req EXCEPT ![r] =
                                      [pc |-> "read", handler |-> handler, input |-> input,
                                       existing |-> APIResult(handler, "get", input,
                                                              Fetched(kind, remote[kind].obj)),
                                       at |-> Len(wlog), calls |-> calls]]
                         /\ UNCHANGED <<last, seen>>
                    ELSE Fail(r, handler, input, calls, out, operation)
    /\ Frame

\* Second half: overlay the body on the copy read, api.Update with the result.
UpdateWrite(r, handler, kind, operation) ==
    /\ InFlight(r)
    /\ req[r].handler = handler
    /\ \E out \in UpdateOutcomes(kind) :
         LET calls     == Append(req[r].calls, Call("update", kind, out))
             submitted == Overlay(kind, req[r].existing, req[r].input.body)
         IN  IF out.ok
             THEN /\ \E result \in Returned(kind, submitted) :
                       LET api == APIResult(handler, "update", req[r].input, result)
                       IN  Finish(r, handler, req[r].input, calls, api, Respond(handler, api))
                  /\ Commit(r, handler, kind, "update", req[r].input, req[r].existing,
                            Present(Stored(kind, submitted)))
             ELSE Fail(r, handler, req[r].input, calls, out, operation) /\ Frame

\* ------------------------------------------------------------- deployments
ListDeployments(r) ==
    ListStep(r, "ListDeployments", "deployment", "list deployments")

GetDeployment(r) ==
    GetStep(r, "GetDeployment", "deployment", "get deployment")

\* DeploymentAPI.GetDeploymentStatus: one GetDeployment, the status built from it.
GetDeploymentStatus(r) ==
    GetStep(r, "GetDeploymentStatus", "deployment", "get deployment")

CreateDeployment(r) ==
    CreateStep(r, "CreateDeployment", "deployment", "create deployment")

UpdateDeployment(r) ==
    UpdateRead(r, "UpdateDeployment", "deployment", "get deployment")

UpdateDeploymentWrite(r) ==
    UpdateWrite(r, "UpdateDeployment", "deployment", "update deployment")

DeleteDeployment(r) ==
    DeleteStep(r, "DeleteDeployment", "deployment", "delete deployment")

\* Handler.ScaleDeployment up to DeploymentAPI.ScaleDeployment's GetDeployment.
ScaleDeployment(r) ==
    /\ Arrives(r)
    /\ \E text \in ScaleTexts :
         IF ~ParseInt(text).ok
         THEN Finish(r, "ScaleDeployment", Query(text), <<>>, NoApi,
                     ErrorJSON(400, [op |-> "Invalid replicas value", cause |-> "",
                                     code |-> 0, reason |-> ""]))
         ELSE \E out \in GetOutcomes("deployment") :
                LET calls == <<Call("get", "deployment", out)>>
                IN  IF out.ok
                    THEN /\ req' = [req EXCEPT ![r] =
                                      [pc |-> "read", handler |-> "ScaleDeployment",
                                       input |-> Query(text),
                                       existing |-> remote["deployment"].obj,
                                       at |-> Len(wlog), calls |-> calls]]
                         /\ UNCHANGED <<last, seen>>
                    ELSE Fail(r, "ScaleDeployment", Query(text), calls, out, "get deployment")
    /\ Frame

\* A scale that submits a fresh object holding the replica count alone: C27
\* must fail with it.
ScaleDeploymentWriteBare(r) ==
    /\ InFlight(r)
    /\ req[r].handler = "ScaleDeployment"
    /\ LET replicas == ParseInt(req[r].input.body["replicas"]).val
           outcomes == IF replicas < 0 THEN {StatusError(422, "Invalid")} \cup Faults
                       ELSE UpdateOutcomes("deployment")
       IN  \E out \in outcomes :
             LET calls     == Append(req[r].calls, Call("update", "deployment", out))
                 submitted == [ZeroObject("deployment") EXCEPT !["replicas"] = replicas]
             IN  IF out.ok
                 THEN /\ Finish(r, "ScaleDeployment", req[r].input, calls, NoApi,
                                MessageJSON(<<"scaled", replicas>>))
                      /\ Commit(r, "ScaleDeployment", "deployment", "update",
                                [shape |-> "query", body |-> [replicas |-> replicas]],
                                req[r].existing, Present(submitted))
                 ELSE Fail(r, "ScaleDeployment", req[r].input, calls, out,
                           "scale deployment") /\ Frame

\* deployment.Spec.Replicas = &replicas, then Update; the server refuses a
\* negative count.
ScaleDeploymentWrite(r) ==
    /\ InFlight(r)
    /\ req[r].handler = "ScaleDeployment"
    /\ LET replicas == ParseInt(req[r].input.body["replicas"]).val
           outcomes == IF replicas < 0 THEN {StatusError(422, "Invalid")} \cup Faults
                       ELSE UpdateOutcomes("deployment")
       IN  \E out \in outcomes :
             LET calls     == Append(req[r].calls, Call("update", "deployment", out))
                 submitted == [req[r].existing EXCEPT !["replicas"] = replicas]
             IN  IF out.ok
                 THEN /\ Finish(r, "ScaleDeployment", req[r].input, calls, NoApi,
                                MessageJSON(<<"scaled", replicas>>))
                      /\ Commit(r, "ScaleDeployment", "deployment", "update",
                                [shape |-> "query", body |-> [replicas |-> replicas]],
                                req[r].existing, Present(submitted))
                 ELSE Fail(r, "ScaleDeployment", req[r].input, calls, out,
                           "scale deployment") /\ Frame

\* ----------------------------------------------------------------- services
ListServices(r) ==
    ListStep(r, "ListServices", "service", "list services")

GetService(r) ==
    GetStep(r, "GetService", "service", "get service")

CreateService(r) ==
    CreateStep(r, "CreateService", "service", "create service")

UpdateService(r) == UpdateRead(r, "UpdateService", "service", "get service")

UpdateServiceWrite(r) ==
    UpdateWrite(r, "UpdateService", "service", "update service")

DeleteService(r) == DeleteStep(r, "DeleteService", "service", "delete service")

\* ServiceAPI.GetServiceStatus, first call: GetService.
GetServiceStatus(r) ==
    /\ Arrives(r)
    /\ \E out \in GetOutcomes("service") :
         LET calls == <<Call("get", "service", out)>>
         IN  IF out.ok
             THEN /\ req' = [req EXCEPT ![r] =
                               [pc |-> "read", handler |-> "GetServiceStatus",
                                input |-> NoInput, existing |-> remote["service"].obj,
                                at |-> Len(wlog), calls |-> calls]]
                  /\ UNCHANGED <<last, seen>>
             ELSE Fail(r, "GetServiceStatus", NoInput, calls, out, "get service")
    /\ Frame

\* A JSON number and a JSON string, each with the text it is written as.
JSONNumber(n) == [json |-> "number", text |-> Numeral(n)]

JSONString(s) == [json |-> "string", text |-> s]

\* One entry of the request's ports array as the client wrote it: the port
\* number n under its name, the same number as target, protocol TCP.
RequestedPort(name, n) ==
    [name |-> name, port |-> n, targetPort |-> JSONNumber(n), protocol |-> "TCP"]

\* A ports report that writes the target port as the number it was sent as:
\* C11 must fail with it.
getServicePortsAsSent(ports) ==
    [k \in DOMAIN ports |->
       [name |-> k, port |-> ports[k], targetPort |-> JSONNumber(ports[k]),
        nodePort |-> 0, protocol |-> "TCP"]]

\* getServicePorts: one map per port, the target port as the text
\* port.TargetPort.String() gives, the node port along with it.
getServicePorts(ports) ==
    [k \in DOMAIN ports |->
       [name |-> k, port |-> ports[k], targetPort |-> JSONString(Numeral(ports[k])),
        nodePort |-> 0, protocol |-> "TCP"]]

\* getEndpointAddresses: the addresses of every subset, none when the
\* Endpoints object has no subsets.
getEndpointAddresses(eps) == eps.addrs

\* A status whose endpoints are those the service read implies, whatever the
\* second read returned: C10 must fail with it.
ServiceStatusOfOneRead(service, eps) ==
    NewSuccessResponse([externalIPs |-> service["externalIPs"],
                        ports       |-> getServicePorts(service["ports"]),
                        endpoints   |-> service["selector"],
                        selector    |-> service["selector"]])

\* The status map assembled from the service read and the endpoints read.
ServiceStatus(service, eps) ==
    NewSuccessResponse([externalIPs |-> service["externalIPs"],
                        ports       |-> getServicePorts(service["ports"]),
                        endpoints   |-> getEndpointAddresses(eps),
                        selector    |-> service["selector"]])

\* ServiceAPI.GetServiceStatus, second call: Endpoints(namespace).Get.
GetServiceStatusEndpoints(r) ==
    /\ InFlight(r)
    /\ req[r].handler = "GetServiceStatus"
    /\ \E out \in (IF endpoints.present THEN {OkOutcome} ELSE {NotFound}) \cup Faults :
         LET calls == Append(req[r].calls, Call("get", "endpoints", out))
             api   == ServiceStatus(req[r].existing, endpoints)
         IN  IF out.ok
             THEN Finish(r, "GetServiceStatus", NoInput, calls, api, JSON(200, api))
             ELSE Fail(r, "GetServiceStatus", NoInput, calls, out, "get service endpoints")
    /\ Frame

\* The control plane brings the Endpoints object in line with the service.
EndpointsController ==
    /\ endpoints # EndpointsFor(remote["service"])
    /\ endpoints' = EndpointsFor(remote["service"])
    /\ copresent' = copresent \cup {<<remote["service"], endpoints'>>}
    /\ UNCHANGED <<remote, pods, req, last, wlog, proc, seen>>

\* --------------------------------------------------------------- configmaps
ListConfigMaps(r) ==
    ListStep(r, "ListConfigMaps", "configmap", "list configmaps")

GetConfigMap(r) ==
    GetStep(r, "GetConfigMap", "configmap", "get configmap")

CreateConfigMap(r) ==
    CreateStep(r, "CreateConfigMap", "configmap", "create configmap")

UpdateConfigMap(r) == UpdateRead(r, "UpdateConfigMap", "configmap", "get configmap")

UpdateConfigMapWrite(r) ==
    UpdateWrite(r, "UpdateConfigMap", "configmap", "update configmap")

DeleteConfigMap(r) == DeleteStep(r, "DeleteConfigMap", "configmap", "delete configmap")

\* ------------------------------------------------------------------ secrets
ListSecrets(r) ==
    ListStep(r, "ListSecrets", "secret", "list secrets")

GetSecret(r) ==
    GetStep(r, "GetSecret", "secret", "get secret")

GetSecretKeys(r) ==
    GetStep(r, "GetSecretKeys", "secret", "get secret keys")

CreateSecret(r) ==
    CreateStep(r, "CreateSecret", "secret", "create secret")

\* existing, err := h.api.GetSecret(...): the copy updated is the redacted one.
UpdateSecret(r) == UpdateRead(r, "UpdateSecret", "secret", "get secret")

UpdateSecretWrite(r) ==
    UpdateWrite(r, "UpdateSecret", "secret", "update secret")

DeleteSecret(r) == DeleteStep(r, "DeleteSecret", "secret", "delete secret")

\* ---------------------------------------------------------------- ingresses
ListIngresses(r) ==
    ListStep(r, "ListIngresses", "ingress", "list ingresses")

GetIngress(r) ==
    GetStep(r, "GetIngress", "ingress", "get ingress")

\* IngressAPI.GetIngressStatus: one GetIngress, the status built from it.
GetIngressStatus(r) ==
    GetStep(r, "GetIngressStatus", "ingress", "get ingress")

CreateIngress(r) ==
    CreateStep(r, "CreateIngress", "ingress", "create ingress")

UpdateIngress(r) == UpdateRead(r, "UpdateIngress", "ingress", "get ingress")

UpdateIngressWrite(r) ==
    UpdateWrite(r, "UpdateIngress", "ingress", "update ingress")

DeleteIngress(r) == DeleteStep(r, "DeleteIngress", "ingress", "delete ingress")

\* ------------------------------------------------- pods, namespaces, health
\* A scan that first gets the object the request names and gives up when it
\* is missing: C25 must fail with it.
PodListStepWithTarget(r, handler, input, operation) ==
    /\ Arrives(r)
    /\ \E got \in GetOutcomes("configmap"), out \in ListOutcomes :
         LET calls == <<Call("get", "configmap", got), Call("list", "pod", out)>>
             api   == APIResult(handler, "list", input, pods)
         IN  IF got.ok /\ out.ok
             THEN Finish(r, handler, input, calls, api, Respond(handler, api))
             ELSE Fail(r, handler, input, calls, IF got.ok THEN out ELSE got, operation)
    /\ Frame

\* A handler whose one remote call lists the pods of the namespace.
PodListStep(r, handler, input, operation) ==
    /\ Arrives(r)
    /\ \E out \in ListOutcomes :
         LET calls == <<Call("list", "pod", out)>>
             api   == APIResult(handler, "list", input, pods)
         IN  IF out.ok
             THEN Finish(r, handler, input, calls, api, Respond(handler, api))
             ELSE Fail(r, handler, input, calls, out, operation)
    /\ Frame

ListPods(r) ==
    PodListStep(r, "ListPods", NoInput, "list pods")

GetConfigMapUsage(r) ==
    \E name \in Names :
      PodListStep(r, "GetConfigMapUsage", [shape |-> "name", body |-> [name |-> name]],
                  "list pods for configmap usage")

GetSecretUsage(r) ==
    \E name \in Names :
      PodListStep(r, "GetSecretUsage", [shape |-> "name", body |-> [name |-> name]],
                  "list pods for secret usage")

GetNamespaceMetrics(r) ==
    PodListStep(r, "GetNamespaceMetrics", NoInput, "get namespace metrics")

PodNames == {InitialPods[i].name : i \in 1..Len(InitialPods)}

HasPod(name) == \E i \in 1..Len(pods) : pods[i].name = name

\* A handler whose one remote call gets the pod of a given name.
PodGetStep(r, handler) ==
    /\ Arrives(r)
    /\ \E name \in PodNames :
       \E out \in (IF HasPod(name) THEN {OkOutcome} ELSE {NotFound}) \cup Faults :
         LET calls == <<Call("get", "pod", out)>>
             input == [shape |-> "name", body |-> [name |-> name]]
             pod   == CHOOSE q \in {pods[i] : i \in 1..Len(pods)} : q.name = name
         IN  IF out.ok
             THEN Finish(r, handler, input, calls, pod, Respond(handler, pod))
             ELSE Fail(r, handler, input, calls, out, "get pod")
    /\ Frame

GetPod(r) == PodGetStep(r, "GetPod")

GetPodMetrics(r) ==
    PodGetStep(r, "GetPodMetrics")

DeletePod(r) ==
    /\ Arrives(r)
    /\ \E name \in PodNames :
       \E out \in (IF HasPod(name) THEN {OkOutcome} ELSE {NotFound}) \cup Faults :
         LET calls == <<Call("delete", "pod", out)>>
             input == [shape |-> "name", body |-> [name |-> name]]
         IN  IF out.ok
             THEN /\ Finish(r, "DeletePod", input, calls, NoApi, MessageJSON("deleted"))
                  /\ pods' = SelectSeq(pods, LAMBDA q : q.name # name)
             ELSE Fail(r, "DeletePod", input, calls, out, "delete pod") /\ UNCHANGED pods
    /\ UNCHANGED <<remote, endpoints, wlog, copresent, proc>>

\* A handler whose one remote call reads the namespaces.
NamespaceStep(r, handler, verb, outcomes, operation, data) ==
    /\ Arrives(r)
    /\ \E out \in outcomes :
         LET calls == <<Call(verb, "namespace", out)>>
         IN  IF out.ok
             THEN Finish(r, handler, NoInput, calls, data, DataJSON(200, data))
             ELSE Fail(r, handler, NoInput, calls, out, operation)
    /\ Frame

ListNamespaces(r) ==
    NamespaceStep(r, "ListNamespaces", "list", ListOutcomes, "list namespaces",
                  <<[name |-> "ns", status |-> "Active"]>>)

GetNamespace(r) ==
    NamespaceStep(r, "GetNamespace", "get", {OkOutcome, NotFound} \cup Faults, "get namespace",
                  [name |-> "ns", status |-> "Active"])

\* A health check that asks the remote and reports what it answered: C20
\* must fail with it.
HealthProbing(r) ==
    /\ Arrives(r)
    /\ \E out \in ListOutcomes :
         Finish(r, "Health", NoInput, <<Call("list", "namespace", out)>>, NoApi,
                JSON(IF out.ok THEN 200 ELSE 503, [status |-> IF out.ok THEN "ok" ELSE "down"]))
    /\ Frame

\* router.GET("/health", ...): no remote call.
Health(r) ==
    /\ Arrives(r)
    /\ Finish(r, "Health", NoInput, <<>>, NoApi, JSON(200, [status |-> "ok"]))
    /\ Frame

\* ------------------------------------------------------------------- main
Quiet == UNCHANGED <<remote, endpoints, pods, req, last, wlog, copresent, seen>>

\* config.Load: the kubeconfig path must name a file that exists.
Load ==
    /\ proc.phase = "start"
    /\ proc' = IF proc.env.kubeconfig = "absent"
               THEN Fatalf(proc)
               ELSE [proc EXCEPT !.phase = "configured", !.loaded = TRUE]
    /\ Quiet

\* Whether NewClient gets as far as a clientset: the token build needs
\* K8S_HOST and K8S_TOKEN and never opens the file, the kubeconfig build
\* needs the file to load and never reads the token.
HasCredentials(env) ==
    IF env.build = "token" THEN env.host /\ env.token ELSE env.kubeconfig = "valid"

\* A NewClient that returns the client without testing the connection: C13
\* must fail with it.
NewClientUnprobed(p, up) ==
    IF ~HasCredentials(p.env) THEN Fatalf(p)
    ELSE [p EXCEPT !.phase = "connected", !.client = TRUE]

\* NewClient with its one IsHealthy call (Discovery().ServerVersion()), which
\* the remote answers (up) or not.
NewClientResult(p, up) ==
    IF ~HasCredentials(p.env) THEN Fatalf(p)
    ELSE IF up
         THEN [p EXCEPT !.phase = "connected", !.client = TRUE, !.probes = @ + 1,
                        !.healthy = TRUE]
         ELSE [Fatalf(p) EXCEPT !.probes = @ + 1]

NewClient ==
    /\ proc.phase = "configured"
    /\ \E up \in BOOLEAN : proc' = NewClientResult(proc, up)
    /\ Quiet

\* ------------------------------------------------------------- the router
\* The named parameters of the route paths.
Wildcards == {":name", ":namespace"}

\* group.GET / POST / PUT / DELETE: one route of the router.
Handle(method, path, handler) == [method |-> method, path |-> path, handler |-> handler]

\* The path of a resource group below /api/v1/<group>/namespaces/:namespace.
Under(group, rest) == <<"api", "v1", group, "namespaces", ":namespace">> \o rest

\* The path of the ingress group, nested under the namespaces group.
Nested(rest) == <<"api", "v1", "namespaces", ":namespace", "ingresses">> \o rest

\* Every route setupRoutes registers.
Routes ==
    {Handle("GET", <<"health">>, "Health"),
     Handle("GET", <<"api", "v1", "namespaces">>, "ListNamespaces"),
     Handle("GET", <<"api", "v1", "namespaces", ":name">>, "GetNamespace"),
     Handle("GET", <<"api", "v1", "namespaces", ":name", "metrics">>, "GetNamespaceMetrics"),
     Handle("GET", Under("pods", <<>>), "ListPods"),
     Handle("GET", Under("pods", <<":name">>), "GetPod"),
     Handle("GET", Under("pods", <<":name", "metrics">>), "GetPodMetrics"),
     Handle("DELETE", Under("pods", <<":name">>), "DeletePod"),
     Handle("GET", Under("deployments", <<>>), "ListDeployments"),
     Handle("POST", Under("deployments", <<>>), "CreateDeployment"),
     Handle("GET", Under("deployments", <<":name">>), "GetDeployment"),
     Handle("PUT", Under("deployments", <<":name">>), "UpdateDeployment"),
     Handle("GET", Under("deployments", <<":name", "status">>), "GetDeploymentStatus"),
     Handle("DELETE", Under("deployments", <<":name">>), "DeleteDeployment"),
     Handle("PUT", Under("deployments", <<":name", "scale">>), "ScaleDeployment"),
     Handle("GET", Under("services", <<>>), "ListServices"),
     Handle("POST", Under("services", <<>>), "CreateService"),
     Handle("GET", Under("services", <<":name">>), "GetService"),
     Handle("PUT", Under("services", <<":name">>), "UpdateService"),
     Handle("DELETE", Under("services", <<":name">>), "DeleteService"),
     Handle("GET", Under("services", <<":name", "status">>), "GetServiceStatus"),
     Handle("GET", Under("configmaps", <<>>), "ListConfigMaps"),
     Handle("POST", Under("configmaps", <<>>), "CreateConfigMap"),
     Handle("GET", Under("configmaps", <<":name">>), "GetConfigMap"),
     Handle("PUT", Under("configmaps", <<":name">>), "UpdateConfigMap"),
     Handle("DELETE", Under("configmaps", <<":name">>), "DeleteConfigMap"),
     Handle("GET", Under("configmaps", <<":name", "usage">>), "GetConfigMapUsage"),
     Handle("GET", Under("secrets", <<>>), "ListSecrets"),
     Handle("POST", Under("secrets", <<>>), "CreateSecret"),
     Handle("GET", Under("secrets", <<":name">>), "GetSecret"),
     Handle("PUT", Under("secrets", <<":name">>), "UpdateSecret"),
     Handle("DELETE", Under("secrets", <<":name">>), "DeleteSecret"),
     Handle("GET", Nested(<<>>), "ListIngresses"),
     Handle("POST", Nested(<<>>), "CreateIngress"),
     Handle("GET", Nested(<<":name">>), "GetIngress"),
     Handle("PUT", Nested(<<":name">>), "UpdateIngress"),
     Handle("DELETE", Nested(<<":name">>), "DeleteIngress"),
     Handle("GET", Nested(<<":name", "status">>), "GetIngressStatus")}

\* Two routes of one method that name the parameter at one position of a
\* shared prefix differently.
WildcardConflict(routes) ==
    \E a, b \in routes :
      /\ a.method = b.method
      /\ \E i \in 1..Len(a.path) :
           /\ i <= Len(b.path)
           /\ SubSeq(a.path, 1, i - 1) = SubSeq(b.path, 1, i - 1)
           /\ a.path[i] \in Wildcards /\ b.path[i] \in Wildcards
           /\ a.path[i] # b.path[i]

\* The request paths tried: the paths of the namespace "ns", of the member
\* "app" of each resource group, and of each sub-resource name below it.
SubResourceNames == {"metrics", "status", "usage", "keys", "scale"}

ResourceGroups == {"pods", "deployments", "services", "configmaps", "secrets"}

RequestPaths ==
    {<<"health">>, <<"api", "v1", "namespaces">>, <<"api", "v1", "namespaces", "ns">>,
     <<"api", "v1", "namespaces", "ns", "metrics">>,
     <<"api", "v1", "namespaces", "ns", "ingresses">>,
     <<"api", "v1", "namespaces", "ns", "ingresses", "app">>,
     <<"api", "v1", "namespaces", "ns", "ingresses", "app", "status">>}
    \cup {<<"api", "v1", g, "namespaces", "ns">> : g \in ResourceGroups}
    \cup {<<"api", "v1", g, "namespaces", "ns", "app">> : g \in ResourceGroups}
    \cup {<<"api", "v1", g, "namespaces", "ns", "app", s>> :
            g \in ResourceGroups, s \in SubResourceNames}

RequestLines == [method : {"GET", "POST", "PUT", "DELETE"}, path : RequestPaths]

\* The route's path fits the request path: equal length, every segment equal
\* or a parameter.
Fits(route, line) ==
    /\ route.method = line.method
    /\ Len(route.path) = Len(line.path)
    /\ \A i \in 1..Len(route.path) :
         route.path[i] \in Wildcards \/ route.path[i] = line.path[i]

\* The handler the router hands the request to; none when no route fits.
Dispatch(line) ==
    IF \E route \in Routes : Fits(route, line)
    THEN (CHOOSE route \in Routes : Fits(route, line)).handler
    ELSE "NoRoute"

\* gin's answer when no route fits.
NotFoundPage == [status |-> 404, body |-> [text |-> "404 page not found"]]

\* Engine.ServeHTTP: the request is handed to the handler of its route, or
\* answered 404 at once.
Route(r) ==
    /\ Arrives(r)
    /\ \E line \in RequestLines :
         Finish(r, Dispatch(line), [shape |-> "line", body |-> line], <<>>, NoApi,
                IF Dispatch(line) = "NoRoute" THEN NotFoundPage ELSE NoResponse)
    /\ Frame

NextRouter == \E r \in Reqs : Route(r)

SpecRouter == Init /\ [][NextRouter]_vars

\* ------------------------------------------------- main, after the client
\* setupRoutes registers the routes; gin's tree panics on a wildcard conflict.
\* gin is no part of this repository, so both outcomes of registering
\* conflicting routes are kept.
SetupRoutes ==
    /\ proc.phase = "connected"
    /\ \E panics \in (IF WildcardConflict(Routes) THEN BOOLEAN ELSE {FALSE}) :
         proc' = IF panics THEN [proc EXCEPT !.phase = "exited", !.exit = "panic"]
                 ELSE [proc EXCEPT !.phase = "routed"]
    /\ Quiet

\* go srv.ListenAndServe(): the listener opens, or the address cannot be bound
\* and the goroutine ends the process.
ListenAndServe ==
    /\ proc.phase = "routed"
    /\ \E bound \in BOOLEAN :
         proc' = IF bound THEN [proc EXCEPT !.phase = "serving"] ELSE Fatalf(proc)
    /\ Quiet

\* <-quit: SIGINT or SIGTERM arrives; srv.Shutdown closes the listener.
Signal ==
    /\ proc.phase \in {"routed", "serving"}
    /\ proc' = [proc EXCEPT !.phase = "draining"]
    /\ Quiet

\* A Shutdown that returns nil without waiting for the requests in flight:
\* C15 must fail with it.
DrainedUnwaited == proc.phase = "draining"

\* srv.Shutdown returns nil: every connection has become idle.
Drained == proc.phase = "draining" /\ \A r \in Reqs : req[r].pc # "read"

ShutdownReturns ==
    /\ Drained
    /\ proc' = [proc EXCEPT !.phase = "exited", !.exit = "normal"]
    /\ Quiet

\* The 5 s context expires with a request still in flight: Shutdown returns
\* the context's error and logger.Fatalf ends the process.
GraceExpired == proc.phase = "draining" /\ \E r \in Reqs : req[r].pc = "read"

ShutdownTimesOut ==
    /\ GraceExpired
    /\ proc' = [proc EXCEPT !.phase = "exited", !.exit = "forced"]
    /\ Quiet

\* ------------------------------------------------------------ specification
Next ==
    \/ \E r \in Reqs :
         \/ ListDeployments(r) \/ GetDeployment(r) \/ GetDeploymentStatus(r)
         \/ CreateDeployment(r) \/ UpdateDeployment(r) \/ UpdateDeploymentWrite(r)
         \/ DeleteDeployment(r) \/ ScaleDeployment(r) \/ ScaleDeploymentWrite(r)
         \/ ListServices(r) \/ GetService(r) \/ CreateService(r)
         \/ UpdateService(r) \/ UpdateServiceWrite(r) \/ DeleteService(r)
         \/ GetServiceStatus(r) \/ GetServiceStatusEndpoints(r)
         \/ ListConfigMaps(r) \/ GetConfigMap(r) \/ CreateConfigMap(r)
         \/ UpdateConfigMap(r) \/ UpdateConfigMapWrite(r) \/ DeleteConfigMap(r)
         \/ GetConfigMapUsage(r)
         \/ ListSecrets(r) \/ GetSecret(r) \/ GetSecretKeys(r) \/ CreateSecret(r)
         \/ UpdateSecret(r) \/ UpdateSecretWrite(r) \/ DeleteSecret(r)
         \/ GetSecretUsage(r)
         \/ ListIngresses(r) \/ GetIngress(r) \/ GetIngressStatus(r) \/ CreateIngress(r)
         \/ UpdateIngress(r) \/ UpdateIngressWrite(r) \/ DeleteIngress(r)
         \/ ListPods(r) \/ GetPod(r) \/ GetPodMetrics(r) \/ DeletePod(r)
         \/ ListNamespaces(r) \/ GetNamespace(r) \/ GetNamespaceMetrics(r)
         \/ Health(r)
    \/ EndpointsController

Spec == Init /\ [][Next]_vars

\* NReq + MaxMore requests, the first answer kept and every later one
\* compared with it: the configmap handlers, the service status with its two
\* reads, and /health.
InitStateless ==
    /\ InitWith(InitialPods)
    /\ proc = Serving(FullEnv)
    /\ seen = [NoHistory EXCEPT !.on = TRUE]

\* One more request arrives, on the connection of the first.
OneMore ==
    /\ seen.more < MaxMore
    /\ req[1].pc = "done"
    /\ req' = [req EXCEPT ![1] = Idle]
    /\ seen' = [seen EXCEPT !.more = @ + 1]
    /\ UNCHANGED <<remote, endpoints, pods, last, wlog, copresent, proc>>

NextStateless ==
    \/ \E r \in Reqs :
         \/ ListConfigMaps(r) \/ GetConfigMap(r) \/ CreateConfigMap(r)
         \/ UpdateConfigMap(r) \/ UpdateConfigMapWrite(r) \/ DeleteConfigMap(r)
         \/ GetServiceStatus(r) \/ GetServiceStatusEndpoints(r)
         \/ Health(r)
    \/ OneMore

SpecStateless == InitStateless /\ [][NextStateless]_vars

\* The process from the first statement of main, in every environment.
InitProcess ==
    /\ InitWith(InitialPods)
    /\ \E env \in Environments : proc = Started(env)
    /\ seen = NoHistory

NextProcess ==
    \/ Load \/ NewClient \/ SetupRoutes \/ ListenAndServe
    \/ Signal \/ ShutdownReturns \/ ShutdownTimesOut
    \/ Next

SpecProcess == InitProcess /\ [][NextProcess]_vars

\* A namespace in which the service is yet to be created and no pod runs.
InitFresh ==
    /\ pods = <<>>
    /\ remote = [k \in Kinds |-> IF k = "service" THEN Absent(k)
                                 ELSE Present(InitialObject(k))]
    /\ endpoints = EndpointsFor(Absent("service"))
    /\ req = [r \in Reqs |-> Idle]
    /\ last = [rid |-> 0, handler |-> "", input |-> NoInput, calls |-> <<>>,
               api |-> NoApi, resp |-> NoResponse]
    /\ wlog = <<>>
    /\ copresent = {<<Absent("service"), EndpointsFor(Absent("service"))>>}
    /\ proc = Serving(FullEnv)
    /\ seen = NoHistory

SpecFresh == InitFresh /\ [][Next]_vars

\* ------------------------------------------- the ingress and its controller
\* The addresses an ingress controller may publish.
Addresses == {EmptyMap, InitialMap, [k \in {"k1"} |-> 1]}

\* The ingress controller of the cluster rewrites status.loadBalancer of the
\* ingress while the facade serves.
IngressController ==
    /\ remote["ingress"].present
    /\ \E lb \in Addresses \ {remote["ingress"].obj["loadBalancer"]} :
         remote' = [remote EXCEPT !["ingress"].obj["loadBalancer"] = lb]
    /\ UNCHANGED <<endpoints, pods, req, last, wlog, copresent, proc, seen>>

NextIngress ==
    \/ \E r \in Reqs :
         \/ ListIngresses(r) \/ GetIngress(r) \/ GetIngressStatus(r) \/ CreateIngress(r)
         \/ UpdateIngress(r) \/ UpdateIngressWrite(r) \/ DeleteIngress(r)
    \/ IngressController

SpecIngress == Init /\ [][NextIngress]_vars

\* ------------------------------------- usage scans over every small pod set
\* The pod set is put together before the first request and fixed from then on.
Growing == req[1].pc = "new" /\ PodsSize(pods) < MaxPodElems

LastPod == pods[Len(pods)]

AddPod ==
    /\ Growing
    /\ pods' = Append(pods, [name |-> Len(pods) + 1, phase |-> "Running",
                             volumes |-> <<>>, containers |-> <<>>])
    /\ UNCHANGED <<remote, endpoints, req, last, wlog, copresent, proc, seen>>

AddVolume ==
    /\ Growing /\ pods # <<>>
    /\ \E ref \in Refs :
         pods' = [pods EXCEPT ![Len(pods)].volumes =
                    Append(@, [name |-> Len(@) + 1, src |-> ref])]
    /\ UNCHANGED <<remote, endpoints, req, last, wlog, copresent, proc, seen>>

AddContainer ==
    /\ Growing /\ pods # <<>>
    /\ pods' = [pods EXCEPT ![Len(pods)].containers =
                  Append(@, [name |-> Len(@) + 1, envFrom |-> <<>>, env |-> <<>>])]
    /\ UNCHANGED <<remote, endpoints, req, last, wlog, copresent, proc, seen>>

AddEnvFrom ==
    /\ Growing /\ pods # <<>> /\ LastPod.containers # <<>>
    /\ \E ref \in Refs :
         pods' = [pods EXCEPT ![Len(pods)].containers[Len(LastPod.containers)].envFrom =
                    Append(@, ref)]
    /\ UNCHANGED <<remote, endpoints, req, last, wlog, copresent, proc, seen>>

AddEnvVar ==
    /\ Growing /\ pods # <<>> /\ LastPod.containers # <<>>
    /\ \E ref \in Refs :
         pods' = [pods EXCEPT ![Len(pods)].containers[Len(LastPod.containers)].env =
                    Append(@, [name |-> Len(@) + 1, ref |-> ref])]
    /\ UNCHANGED <<remote, endpoints, req, last, wlog, copresent, proc, seen>>

InitUsage == InitWith(<<>>) /\ proc = Serving(FullEnv) /\ seen = NoHistory

NextUsage ==
    \/ AddPod \/ AddVolume \/ AddContainer \/ AddEnvFrom \/ AddEnvVar
    \/ \E r \in Reqs : GetConfigMapUsage(r) \/ GetSecretUsage(r)

SpecUsage == InitUsage /\ [][NextUsage]_vars

\* The usage scans with the pod set changing between the requests: pods are
\* deleted while the facade serves, and a further request follows.
\* A further request arrives once both have been answered; the pod set is no
\* longer put together then.
FurtherRequest ==
    /\ seen.more < MaxMore
    /\ \A r \in Reqs : req[r].pc = "done"
    /\ req' = [req EXCEPT ![NReq] = Idle]
    /\ seen' = [seen EXCEPT !.more = @ + 1]
    /\ UNCHANGED <<remote, endpoints, pods, last, wlog, copresent, proc>>

NextUsageFresh ==
    \/ NextUsage
    \/ \E r \in Reqs : DeletePod(r)
    \/ FurtherRequest

SpecUsageFresh == InitUsage /\ [][NextUsageFresh]_vars

\* ------------------------------------------- CreateDeployment, field by field
\* A string is the sequence of its parts, the empty string the empty sequence.
Str(s) == <<s>>

\* The bodies tried: names (the empty one among them), replica counts, with
\* or without container port, labels (some with a key app of their own),
\* annotations and environment entries.
DeploymentRequests ==
    {Restrict(full, {"name", "image", "replicas"} \cup optional) :
       full \in [name : {<<>>, Str("web"), Str("db")},
                 image : {Str("nginx")},
                 replicas : 0..MaxReplicas,
                 containerPort : {80},
                 labels : {[app |-> Str("db")], [app |-> Str("web")], [tier |-> Str("x")]},
                 annotations : {[note |-> Str("n")]},
                 envVars : {<<>>, <<[name |-> Str("E"), value |-> Str("v")]>>}],
       optional \in SUBSET {"containerPort", "labels", "annotations", "envVars"}}

\* A deployment object whose selector and template labels are the labels of
\* the request when it has any: C28 must fail with it.
DeploymentOfLabelled(request) ==
    LET own == IF Has(request, "labels") THEN request["labels"]
               ELSE [app |-> request["name"]]
    IN  [metadata |-> [name        |-> request["name"],
                       labels      |-> own,
                       annotations |-> EmptyMap],
         spec |-> [replicas |-> request["replicas"],
                   selector |-> [matchLabels |-> own],
                   template |-> [labels     |-> own,
                                 containers |-> <<[name  |-> request["name"],
                                                   image |-> request["image"],
                                                   ports |-> <<>>, env |-> <<>>]>>]]]

\* deployment := &appsv1.Deployment{...}: the object the handler builds from
\* the bound request, the environment added when the request has any.
DeploymentOf(request) ==
    [metadata |-> [name        |-> request["name"],
                   labels      |-> IF Has(request, "labels") THEN request["labels"]
                                   ELSE EmptyMap,
                   annotations |-> IF Has(request, "annotations") THEN request["annotations"]
                                   ELSE EmptyMap],
     spec |-> [replicas |-> request["replicas"],
               selector |-> [matchLabels |-> [app |-> request["name"]]],
               template |->
                 [labels     |-> [app |-> request["name"]],
                  containers |->
                    <<[name  |-> request["name"],
                       image |-> request["image"],
                       ports |-> <<[containerPort |->
                                      IF Has(request, "containerPort")
                                      THEN request["containerPort"] ELSE 0]>>,
                       env   |-> IF NonEmpty(request, "envVars")
                                 THEN [i \in 1..Len(request["envVars"]) |->
                                         [name  |-> request["envVars"][i].name,
                                          value |-> request["envVars"][i].value]]
                                 ELSE <<>>]>>]]]

\* Handler.CreateDeployment over these bodies: bind, build the object, create;
\* the API returns the object as the server stored it.
CreateDeploymentRequest(r) ==
    /\ Arrives(r)
    /\ \E request \in DeploymentRequests :
         LET input == Json(request)
         IN  IF ~ShouldBindJSON(input, Required("deployment"))
             THEN Reject(r, "CreateDeployment", input) /\ Frame
             ELSE \E out \in CreateOutcomes("deployment") :
                    LET calls     == <<Call("create", "deployment", out)>>
                        submitted == DeploymentOf(request)
                    IN  IF out.ok
                        THEN /\ Finish(r, "CreateDeployment", input, calls, submitted,
                                       Respond("CreateDeployment", submitted))
                             /\ Commit(r, "CreateDeployment", "deployment", "create", input,
                                       ZeroObject("deployment"),
                                       Present(NewObject("deployment", request)))
                        ELSE Fail(r, "CreateDeployment", input, calls, out,
                                  "create deployment") /\ Frame

\* A namespace in which the deployment is yet to be created.
InitNoDeployment ==
    /\ pods = InitialPods
    /\ remote = [k \in Kinds |-> IF k = "deployment" THEN Absent(k)
                                 ELSE Present(InitialObject(k))]
    /\ endpoints = EndpointsFor(Present(InitialObject("service")))
    /\ req = [r \in Reqs |-> Idle]
    /\ last = [rid |-> 0, handler |-> "", input |-> NoInput, calls |-> <<>>,
               api |-> NoApi, resp |-> NoResponse]
    /\ wlog = <<>>
    /\ copresent = {<<Present(InitialObject("service")),
                      EndpointsFor(Present(InitialObject("service")))>>}
    /\ proc = Serving(FullEnv)
    /\ seen = NoHistory

NextCreateDeployment ==
    \E r \in Reqs : CreateDeploymentRequest(r) \/ DeleteDeployment(r) \/ GetDeployment(r)

SpecCreateDeployment == InitNoDeployment /\ [][NextCreateDeployment]_vars

\* --------------------------------------------------- updates sent once more
\* The update handlers alone, with a further request after the first two: the
\* client of the second request sends its body again.
NextRepeat ==
    \/ \E r \in Reqs :
         \/ UpdateDeployment(r) \/ UpdateDeploymentWrite(r)
         \/ UpdateService(r) \/ UpdateServiceWrite(r)
         \/ UpdateConfigMap(r) \/ UpdateConfigMapWrite(r)
         \/ UpdateSecret(r) \/ UpdateSecretWrite(r)
         \/ UpdateIngress(r) \/ UpdateIngressWrite(r)
    \/ FurtherRequest

SpecRepeat == Init /\ [][NextRepeat]_vars

\* ------------------------------------- metrics over every small set of pods
\* Pods of the given phases, without volumes or containers.
PodsOfPhases(phases) ==
    [i \in 1..Len(phases) |->
        [name |-> i, phase |-> phases[i], volumes |-> <<>>, containers |-> <<>>]]

\* A namespace holding up to MaxPods pods, each in any phase.
InitMetrics ==
    /\ \E n \in 0..MaxPods : \E phases \in [1..n -> Phases] :
         InitWith(PodsOfPhases(phases))
    /\ proc = Serving(FullEnv)
    /\ seen = NoHistory

NextMetrics == \E r \in Reqs : GetNamespaceMetrics(r) \/ ListPods(r) \/ DeletePod(r)

SpecMetrics == InitMetrics /\ [][NextMetrics]_vars

\* ------------------------------------------------------ the CORS middleware
\* c.Writer.Header().Set, three times.
CORSHeaders ==
    ("Access-Control-Allow-Origin" :> "*")
    @@ ("Access-Control-Allow-Methods" :> "GET, POST, PUT, DELETE, OPTIONS")
    @@ ("Access-Control-Allow-Headers" :>
          "Origin, Content-Type, Content-Length, Accept-Encoding, X-CSRF-Token, Authorization")

\* The request lines tried: every method, OPTIONS among them, on /health and
\* on the member "app" of three resource groups.
CORSLines ==
    [method : {"GET", "POST", "PUT", "DELETE", "OPTIONS"},
     path : {<<"health">>} \cup
            {<<"api", "v1", g, "namespaces", "ns", "app">> :
               g \in {"pods", "deployments", "services"}}]

\* c.AbortWithStatus(code): the status written, no body, the chain ended.
AbortWithStatus(code) == [status |-> code, body |-> EmptyMap]

\* The request as the listener hands it to the engine, no middleware run.
Accepted == [Idle EXCEPT !.pc = "accepted"]

\* A middleware that sets the headers and calls c.Next() whatever the
\* method: C30 must fail with it.
CORSMiddlewareThrough(r) ==
    /\ proc.phase = "serving"
    /\ req[r].pc = "accepted"
    /\ \E line \in CORSLines :
         /\ seen' = [seen EXCEPT !.writer[r] = [line |-> line, headers |-> CORSHeaders]]
         /\ req' = [req EXCEPT ![r] = Idle]
         /\ UNCHANGED last
    /\ Frame

\* router.Use(func(c *gin.Context) {...}): the three headers are set on the
\* writer; an OPTIONS request is answered 204 and aborted, any other goes on
\* to the handlers of its route.
CORSMiddleware(r) ==
    /\ proc.phase = "serving"
    /\ req[r].pc = "accepted"
    /\ \E line \in CORSLines :
         /\ seen' = [seen EXCEPT !.writer[r] = [line |-> line, headers |-> CORSHeaders]]
         /\ IF line.method = "OPTIONS"
            THEN /\ req' = [req EXCEPT ![r] = Done]
                 /\ last' = [rid |-> r, handler |-> "CORS",
                             input |-> [shape |-> "line", body |-> line],
                             calls |-> <<>>, api |-> NoApi, resp |-> AbortWithStatus(204)]
            ELSE /\ req' = [req EXCEPT ![r] = Idle]
                 /\ UNCHANGED last
    /\ Frame

\* c.Next(): the request goes to the handler its line is routed to.
Routed(r, handler) == Dispatch(seen.writer[r].line) = handler

\* No route fits the line: gin's 404, after the middleware.
NoRoute(r) ==
    /\ Arrives(r)
    /\ Routed(r, "NoRoute")
    /\ Finish(r, "NoRoute", [shape |-> "line", body |-> seen.writer[r].line], <<>>, NoApi,
              NotFoundPage)
    /\ Frame

InitCORS ==
    /\ pods = InitialPods
    /\ remote = [k \in Kinds |-> Present(InitialObject(k))]
    /\ endpoints = EndpointsFor(Present(InitialObject("service")))
    /\ req = [r \in Reqs |-> Accepted]
    /\ last = [rid |-> 0, handler |-> "", input |-> NoInput, calls |-> <<>>,
               api |-> NoApi, resp |-> NoResponse]
    /\ wlog = <<>>
    /\ copresent = {<<Present(InitialObject("service")),
                      EndpointsFor(Present(InitialObject("service")))>>}
    /\ proc = Serving(FullEnv)
    /\ seen = NoHistory

NextCORS ==
    \E r \in Reqs :
      \/ CORSMiddleware(r)
      \/ Routed(r, "Health") /\ Health(r)
      \/ Routed(r, "GetPod") /\ GetPod(r)
      \/ Routed(r, "DeletePod") /\ DeletePod(r)
      \/ Routed(r, "GetDeployment") /\ GetDeployment(r)
      \/ Routed(r, "UpdateDeployment") /\ UpdateDeployment(r)
      \/ UpdateDeploymentWrite(r)
      \/ Routed(r, "DeleteDeployment") /\ DeleteDeployment(r)
      \/ Routed(r, "GetService") /\ GetService(r)
      \/ Routed(r, "UpdateService") /\ UpdateService(r)
      \/ UpdateServiceWrite(r)
      \/ Routed(r, "DeleteService") /\ DeleteService(r)
      \/ NoRoute(r)

SpecCORS == InitCORS /\ [][NextCORS]_vars

\* =================================================================== claims
Answered(handler, status) == last.handler = handler /\ last.resp.status = status

\* A value payload: a non-empty data, binaryData or stringData of an item.
HasPayload(item) ==
    \E f \in {"data", "binaryData", "stringData"} \cap DOMAIN item : item[f] # EmptyMap

ItemsClean(items) == \A i \in 1..Len(items) : ~HasPayload(items[i])

\* C1, as stated: no list or get response for a secret or a configmap carries
\* a value payload of the object.
C1_AsStated ==
    /\ (Answered("ListSecrets", 200) \/ Answered("ListConfigMaps", 200))
         => ItemsClean(last.resp.body.data)
    /\ (Answered("GetSecret", 200) \/ Answered("GetConfigMap", 200))
         => ~HasPayload(last.resp.body.data)

\* C1, amended: the secret list and get responses and the configmap list
\* response carry no value payload (the configmap list carries only the number
\* of data keys); the configmap get response carries the data and binaryData
\* of the object the remote API returned.
C1_ValuesOnlyInConfigMapGet ==
    /\ (Answered("ListSecrets", 200) \/ Answered("ListConfigMaps", 200))
         => ItemsClean(last.resp.body.data)
    /\ Answered("GetSecret", 200) => ~HasPayload(last.resp.body.data)
    /\ Answered("GetConfigMap", 200)
         => /\ last.resp.body.data["data"] = last.api["data"]
            /\ last.resp.body.data["binaryData"] = last.api["binaryData"]

\* A configmap get answered with populated data.
C1_Witness == Answered("GetConfigMap", 200) /\ last.resp.body.data["data"] # EmptyMap

\* ------------------------------------------------------------------------
UpdateHandlers ==
    {"UpdateDeployment", "UpdateService", "UpdateConfigMap", "UpdateSecret", "UpdateIngress"}

\* The accepted writes of the five update handlers.
IsUpdate(e) == e.verb = "update" /\ e.handler \in UpdateHandlers

\* The body of write e names group g (a secret's data is named by stringData).
Named(e, g) ==
    IF e.kind = "secret" /\ g = "data" THEN Has(e.body, "stringData") ELSE Has(e.body, g)

\* The value the body of write e supplies for group g.
Supplied(e, g) == IF e.kind = "secret" /\ g = "data" THEN e.body["stringData"] ELSE e.body[g]

\* No write was accepted between the read and the write of wlog[i].
Alone(i) == wlog[i].at = i - 1

\* C2, as stated: an update that no other writer interleaves leaves every field
\* group its body does not name as it was, a secret's data included.
C2_AsStated ==
    \A i \in 1..Len(wlog) :
      (IsUpdate(wlog[i]) /\ Alone(i)) =>
        \A g \in Groups(wlog[i].kind) :
          ~Named(wlog[i], g) => wlog[i].post.obj[g] = wlog[i].pre.obj[g]

\* ------------------------------------------------------------------------
\* Value v of field f is the empty one: what an update's len(...) > 0 guard
\* skips, whether or not the validator would accept it.
NoValue(v, f) == IF f = "replicas" THEN v = 0 ELSE IsEmpty(v)

\* The body of write e names a field, and every field it names holds a
\* non-empty value.

Valued(e) == DOMAIN e.body # {} /\ \A f \in DOMAIN e.body : ~NoValue(e.body[f], f)

\* wlog[i] and wlog[j] are consecutive accepted updates of one object by two
\* requests, each naming groups with values.
UpdatePair(i, j) ==
    /\ j = i + 1
    /\ IsUpdate(wlog[i]) /\ IsUpdate(wlog[j])
    /\ wlog[i].kind = wlog[j].kind
    /\ wlog[i].rid # wlog[j].rid
    /\ Valued(wlog[i]) /\ Valued(wlog[j])

Disjoint(i, j) == \A g \in Groups(wlog[i].kind) : ~(Named(wlog[i], g) /\ Named(wlog[j], g))

\* The second writer read before the first wrote.
Overlapping(i, j) == wlog[j].at < i

\* C3, as stated: after two accepted updates naming disjoint groups the object
\* carries both writers' values, however their reads and writes interleave.
C3_AsStated ==
    \A i, j \in 1..Len(wlog) :
      (UpdatePair(i, j) /\ Disjoint(i, j)) =>
        \A g \in Groups(wlog[i].kind) :
          /\ Named(wlog[i], g) => wlog[j].post.obj[g] = Supplied(wlog[i], g)
          /\ Named(wlog[j], g) => wlog[j].post.obj[g] = Supplied(wlog[j], g)

\* C3, amended: two accepted updates naming disjoint groups both apply when the
\* second request reads after the first has written (a secret's data excepted,
\* which every update rebuilds from its own stringData); when the second
\* request read before the first wrote, its write puts every group it does not
\* name back to the value it read, and the first writer's groups are lost.
C3_BothApplyOnlyWhenSerial ==
    \A i, j \in 1..Len(wlog) :
      (UpdatePair(i, j) /\ Disjoint(i, j)) =>
        \A g \in Groups(wlog[i].kind) :
          /\ Named(wlog[j], g) => wlog[j].post.obj[g] = Supplied(wlog[j], g)
          /\ (Named(wlog[i], g) /\ ~Overlapping(i, j) /\ ~(wlog[i].kind = "secret" /\ g = "data"))
               => wlog[j].post.obj[g] = Supplied(wlog[i], g)
          /\ (Named(wlog[i], g) /\ Overlapping(i, j))
               => wlog[j].post.obj[g] = wlog[j].snap[g]

\* Two serial label and annotation updates of a configmap, both applied.
C3_Witness ==
    \E i, j \in 1..Len(wlog) :
      /\ UpdatePair(i, j) /\ Disjoint(i, j) /\ ~Overlapping(i, j)
      /\ wlog[i].kind = "configmap"
      /\ Named(wlog[i], "labels") /\ Named(wlog[j], "annotations")
      /\ remote["configmap"].obj["labels"] = Supplied(wlog[i], "labels")
      /\ remote["configmap"].obj["annotations"] = Supplied(wlog[j], "annotations")

\* ------------------------------------------------------------------------
\* C4, as stated: of two interleaved updates, each field group ends with the
\* value of the last writer that named it, and a group neither named is
\* unchanged.
C4_AsStated ==
    \A i, j \in 1..Len(wlog) :
      (UpdatePair(i, j) /\ Overlapping(i, j)) =>
        \A g \in Groups(wlog[i].kind) :
          wlog[j].post.obj[g] =
            IF Named(wlog[j], g) THEN Supplied(wlog[j], g)
            ELSE IF Named(wlog[i], g) THEN Supplied(wlog[i], g)
            ELSE wlog[i].pre.obj[g]

\* The groups an update handler applies only when the body's value is non-empty.
LenGuarded == {"image", "envVars", "ports", "className", "rules", "tls"}

\* The body of write e changes group g.
Applies(e, g) == Named(e, g) /\ (g \in LenGuarded => ~NoValue(Supplied(e, g), g))

\* C4, amended: last-write-wins holds for the whole object, not per field
\* group.  Every accepted update leaves each group its body applies at the
\* body's value (a secret's data: exactly the keys of stringData) and every
\* other group at the value the writer read (a secret's data: empty); so of two
\* interleaved updates the later write decides every group, and a group only
\* the earlier one named goes back to what the later writer read.
C4_LastWriterDecidesWholeObject ==
    \A i \in 1..Len(wlog) :
      IsUpdate(wlog[i]) =>
        \A g \in Groups(wlog[i].kind) :
          wlog[i].post.obj[g] =
            IF Applies(wlog[i], g) THEN Supplied(wlog[i], g) ELSE wlog[i].snap[g]

\* Two interleaved updates after which a group only the first named is back at
\* its old value.
C4_Witness ==
    \E i, j \in 1..Len(wlog) : \E g \in Groups(wlog[i].kind) :
      /\ UpdatePair(i, j) /\ Overlapping(i, j)
      /\ Named(wlog[i], g) /\ ~Named(wlog[j], g)
      /\ wlog[i].post.obj[g] = Supplied(wlog[i], g)
      /\ remote[wlog[i].kind].obj[g] = wlog[i].pre.obj[g]
      /\ remote[wlog[i].kind].obj[g] # Supplied(wlog[i], g)

\* ------------------------------------------------------------------------
UsageAnswered == Answered("GetConfigMapUsage", 200) \/ Answered("GetSecretUsage", 200)

\* The entries of the usage report answered last.
ReportedPods ==
    IF last.handler = "GetConfigMapUsage" THEN last.resp.body.data.podsUsingConfigMap
    ELSE last.resp.body.data.podsUsingSecret

\* The source ref is a reference to the resource the last usage request named.
RefersToTarget(ref) ==
    /\ ref.kind = (IF last.handler = "GetConfigMapUsage" THEN "configmap" ELSE "secret")
    /\ ref.name = last.input.body["name"]

\* The names of the pod's volumes whose source is the target.
VolumeRefs(pod) ==
    {pod.volumes[v].name :
       v \in {w \in 1..Len(pod.volumes) : RefersToTarget(pod.volumes[w].src)}}

\* The names of the pod's containers that import the target with envFrom.
EnvFromRefs(pod) ==
    {pod.containers[c].name :
       c \in {d \in 1..Len(pod.containers) :
                \E e \in 1..Len(pod.containers[d].envFrom) :
                  RefersToTarget(pod.containers[d].envFrom[e])}}

\* The container and variable names of the pod's env entries taken from the target.
EnvVarRefs(pod) ==
    UNION {{<<pod.containers[c].name, pod.containers[c].env[e].name>> :
              e \in {x \in 1..Len(pod.containers[c].env) :
                       RefersToTarget(pod.containers[c].env[x].ref)}} :
           c \in 1..Len(pod.containers)}

Recorded(usage, key) ==
    IF key \in DOMAIN usage THEN {usage[key][i] : i \in 1..Len(usage[key])} ELSE {}

\* C5: a usage report lists, in pod order and once each, exactly the pods that
\* reference the target by a volume, an envFrom or an env valueFrom; each entry
\* records under volumeMounts, envFrom and envVars exactly the matching volume
\* names, container names and container:variable pairs, and totalPods is the
\* number of entries.
C5_UsageComplete ==
    UsageAnswered =>
      LET items == ReportedPods
      IN  /\ \A p \in 1..Len(pods) :
                LET pod  == pods[p]
                    mine == {i \in 1..Len(items) : items[i].name = pod.name}
                    uses == VolumeRefs(pod) # {} \/ EnvFromRefs(pod) # {} \/ EnvVarRefs(pod) # {}
                IN  /\ Cardinality(mine) = IF uses THEN 1 ELSE 0
                    /\ \A i \in mine :
                         /\ items[i].status = pod.phase
                         /\ Recorded(items[i].usage, "volumeMounts") = VolumeRefs(pod)
                         /\ Recorded(items[i].usage, "envFrom") = EnvFromRefs(pod)
                         /\ Recorded(items[i].usage, "envVars") = EnvVarRefs(pod)
                         /\ \A k \in DOMAIN items[i].usage : items[i].usage[k] # <<>>
          /\ \A i \in 1..Len(items) : \E p \in 1..Len(pods) : items[i].name = pods[p].name
          /\ \A i, j \in 1..Len(items) : i < j => items[i].name < items[j].name
          /\ last.resp.body.data.totalPods = Len(items)

\* A report with a pod that references the target in all three ways.
C5_Witness ==
    /\ UsageAnswered
    /\ \E i \in 1..Len(ReportedPods) :
         DOMAIN ReportedPods[i].usage = {"volumeMounts", "envFrom", "envVars"}

\* ------------------------------------------------------------------------
Blank(o) == o["data"] = EmptyMap /\ o["stringData"] = EmptyMap

\* C6: every object SecretAPI returns from ListSecrets, GetSecret, CreateSecret
\* and UpdateSecret (the copy an update in flight holds included) has empty
\* data and stringData, and GetSecretKeys returns key names and the type only.
C6_SecretValuesStayInModule ==
    /\ Answered("ListSecrets", 200) => \A i \in 1..Len(last.api) : Blank(last.api[i])
    /\ (Answered("GetSecret", 200) \/ Answered("CreateSecret", 201)
        \/ Answered("UpdateSecret", 200)) => Blank(last.api)
    /\ \A r \in Reqs :
         (req[r].pc = "read" /\ req[r].handler = "UpdateSecret") => Blank(req[r].existing)
    /\ Answered("GetSecretKeys", 200)
         => /\ DOMAIN last.api.data = {"keys", "type"}
            /\ last.api.data.keys \subseteq Keys

\* An accepted secret update whose stored result holds values.
C6_Witness == Answered("UpdateSecret", 200) /\ remote["secret"].obj["data"] # EmptyMap

\* ------------------------------------------------------------------------
\* C7: a request one of whose remote calls failed is answered 500 with
\* success=false, whatever the remote error was.
C7_RemoteErrorIs500 ==
    (\E i \in 1..Len(last.calls) : ~last.calls[i].ok)
      => last.resp.status = 500 /\ last.resp.body.success = FALSE

\* A remote 409 answered with 500.
C7_Witness ==
    /\ last.calls # <<>>
    /\ ~last.calls[Len(last.calls)].ok
    /\ last.resp.status = 500
    /\ last.resp.body.error.code = 409

\* ------------------------------------------------------------------------
\* The replicas values tried that are no base-10 32-bit integer.
NotAnInt32 ==
    {<<>>, <<"x">>, <<"1", "x">>, <<"2", "1", "4", "7", "4", "8", "3", "6", "4", "8">>}

\* The request answered last had a missing or malformed body, or was a scale
\* request with a replicas value that is no 32-bit integer.
BadRequest(l) ==
    \/ l.input.shape \in {"missing", "malformed"}
    \/ l.handler = "ScaleDeployment" /\ l.input.body["replicas"] \in NotAnInt32

\* C8: such a request is answered 400 with success=false, has issued no remote
\* call, and the step that answers it leaves the remote state as it was.
C8_BadRequestTouchesNothing ==
    /\ [](BadRequest(last) => /\ last.resp.status = 400
                              /\ last.resp.body.success = FALSE
                              /\ last.calls = <<>>)
    /\ [][(last'.rid # last.rid /\ BadRequest(last'))
            => UNCHANGED <<remote, endpoints, pods, wlog>>]_vars

\* A secret update with a malformed body, answered 400.
C8_Witness == Answered("UpdateSecret", 400) /\ last.input.shape = "malformed"

\* ------------------------------------------------------------------------
ListHandlers ==
    {"ListDeployments", "ListServices", "ListConfigMaps", "ListSecrets", "ListIngresses",
     "ListPods", "ListNamespaces"}

GetHandlers ==
    {"GetDeployment", "GetService", "GetConfigMap", "GetSecret", "GetIngress", "GetPod",
     "GetNamespace"}

CreateHandlers ==
    {"CreateDeployment", "CreateService", "CreateConfigMap", "CreateSecret", "CreateIngress"}

DeleteHandlers ==
    {"DeleteDeployment", "DeleteService", "DeleteConfigMap", "DeleteSecret", "DeleteIngress",
     "DeletePod"}

\* The handlers that derive their answer from one get or one list.
DerivedHandlers ==
    {"GetDeploymentStatus", "GetIngressStatus", "GetSecretKeys", "GetPodMetrics",
     "GetConfigMapUsage", "GetSecretUsage", "GetNamespaceMetrics"}

\* The verbs of the calls, in order.
Verbs(calls) == [i \in 1..Len(calls) |-> calls[i].verb]

\* One read, then at most one further call of the given verb.
ReadThenAtMostOne(calls, verb) == Verbs(calls) \in {<<"get">>, <<"get", verb>>}

\* No call follows a failed call.
FailedIsLast(calls) == \A i \in 1..Len(calls) : ~calls[i].ok => i = Len(calls)

\* C9, as stated: list, get, create and delete requests issue exactly one remote
\* call, update and scale requests one read and at most one write, a service
\* status request one service read and at most one endpoints read, and no
\* failed call is issued again.
C9_AsStated ==
    /\ last.handler \in ListHandlers \cup GetHandlers \cup CreateHandlers \cup DeleteHandlers
         => Len(last.calls) = 1
    /\ last.handler \in UpdateHandlers \cup {"ScaleDeployment"}
         => ReadThenAtMostOne(last.calls, "update")
    /\ last.handler = "GetServiceStatus" => ReadThenAtMostOne(last.calls, "get")
    /\ FailedIsLast(last.calls)

\* C9, amended: a request rejected with 400 issues no remote call.  Every other
\* list, get, delete, create, status, keys, usage or metrics request issues
\* exactly one call; every other update or scale request one read and, exactly
\* when the read succeeded, one write; a service status request one service
\* read and, exactly when it succeeded, one endpoints read; the health request
\* none.  No call follows a failed call.
C9_OnceEachUnlessRejected ==
    /\ last.resp.status = 400 => last.calls = <<>>
    /\ (last.resp.status # 400 /\ last.handler \in ListHandlers) => Verbs(last.calls) = <<"list">>
    /\ (last.resp.status # 400 /\ last.handler \in GetHandlers) => Verbs(last.calls) = <<"get">>
    /\ (last.resp.status # 400 /\ last.handler \in CreateHandlers)
         => Verbs(last.calls) = <<"create">>
    /\ (last.resp.status # 400 /\ last.handler \in DeleteHandlers)
         => Verbs(last.calls) = <<"delete">>
    /\ last.handler \in DerivedHandlers => Len(last.calls) = 1
    /\ (last.resp.status # 400 /\ last.handler \in UpdateHandlers \cup {"ScaleDeployment"})
         => Verbs(last.calls) = IF last.calls[1].ok THEN <<"get", "update">> ELSE <<"get">>
    /\ last.handler = "GetServiceStatus"
         => /\ Verbs(last.calls) = IF last.calls[1].ok THEN <<"get", "get">> ELSE <<"get">>
            /\ last.calls[1].resource = "service"
            /\ Len(last.calls) = 2 => last.calls[2].resource = "endpoints"
    /\ last.handler = "Health" => last.calls = <<>>
    /\ FailedIsLast(last.calls)
    /\ \A r \in Reqs : req[r].pc = "read" => Len(req[r].calls) = 1 /\ req[r].calls[1].ok

\* An update whose write failed after its read: two calls, the second not
\* repeated.
C9_Witness ==
    /\ last.handler = "UpdateConfigMap"
    /\ Len(last.calls) = 2
    /\ ~last.calls[2].ok

\* ------------------------------------------------------------------------
\* C10: GetServiceStatus makes two separate reads.  Its first step keeps the
\* service as the remote holds it then; the step that answers takes the
\* service fields from that copy and the addresses from the Endpoints object
\* the remote holds at that later moment.
C10_StatusFromTwoReads ==
    [][\A r \in Reqs :
         /\ (req[r].pc = "new" /\ req'[r].pc = "read" /\ req'[r].handler = "GetServiceStatus")
              => req'[r].existing = remote["service"].obj
         /\ (req[r].pc = "read" /\ req[r].handler = "GetServiceStatus"
             /\ req'[r].pc = "done" /\ last'.resp.status = 200)
              => /\ last'.resp.body.data.selector = req[r].existing["selector"]
                 /\ last'.resp.body.data.ports = getServicePorts(req[r].existing["ports"])
                 /\ last'.resp.body.data.externalIPs = req[r].existing["externalIPs"]
                 /\ last'.resp.body.data.endpoints = endpoints.addrs
                 /\ Len(last'.calls) = 2]_vars

\* A status answer whose service fields and addresses the remote never held
\* together.
C10_Witness ==
    /\ Answered("GetServiceStatus", 200)
    /\ \A pair \in copresent :
         ~(/\ pair[1].present
           /\ pair[2].present
           /\ pair[1].obj["selector"] = last.resp.body.data.selector
           /\ getServicePorts(pair[1].obj["ports"]) = last.resp.body.data.ports
           /\ pair[1].obj["externalIPs"] = last.resp.body.data.externalIPs
           /\ pair[2].addrs = last.resp.body.data.endpoints)


\* The write accepted last.
LastWrite == wlog[Len(wlog)]

\* Request r is a status request between its two reads, the service was created
\* by the write accepted last, from a body with one port and a selector of two
\* entries, the request read the service after that write, and no pod runs.
FreshService(r) ==
    /\ pods = <<>>
    /\ wlog # <<>>
    /\ LastWrite.handler = "CreateService"
    /\ Cardinality(DOMAIN LastWrite.body["ports"]) = 1
    /\ Cardinality(DOMAIN LastWrite.body["selector"]) = 2
    /\ req[r].pc = "read" /\ req[r].handler = "GetServiceStatus"
    /\ req[r].at = Len(wlog)

\* The remote refused the call for authorisation or transport reasons.
RemoteFault(resp) ==
    resp.status = 500 /\ resp.body.error.cause \in {Forbidden.reason, Transport.reason}

PortFields == {"name", "port", "targetPort", "protocol"}

C11_WitnessNotYet ==
    /\ Answered("GetServiceStatus", 500)
    /\ pods = <<>>
    /\ Len(wlog) = 1
    /\ LastWrite.handler = "CreateService"
    /\ last.resp.body.error.op = "get service endpoints"
    /\ last.resp.body.error.reason = "NotFound"


\* The operation name each delete handler passes to HandleError.
DeleteOperation(handler) ==
    CASE handler = "DeletePod"        -> "delete pod"
      [] handler = "DeleteDeployment" -> "delete deployment"
      [] handler = "DeleteService"    -> "delete service"
      [] handler = "DeleteConfigMap"  -> "delete configmap"
      [] handler = "DeleteSecret"     -> "delete secret"
      [] handler = "DeleteIngress"    -> "delete ingress"

\* The remote holds what the delete request names.
Held(handler, input) ==
    CASE handler = "DeletePod"        -> HasPod(input.body["name"])
      [] handler = "DeleteDeployment" -> remote["deployment"].present
      [] handler = "DeleteService"    -> remote["service"].present
      [] handler = "DeleteConfigMap"  -> remote["configmap"].present
      [] handler = "DeleteSecret"     -> remote["secret"].present
      [] handler = "DeleteIngress"    -> remote["ingress"].present

\* Request r answers at this step, after a remote call that failed.
AnswersFailedCall(r) ==
    /\ req[r].pc # "done" /\ req'[r].pc = "done"
    /\ last'.calls # <<>>
    /\ ~last'.calls[Len(last'.calls)].ok

\* C12: a request whose remote call failed answers 500 with the error
\* re-wrapped: the local operation name, the remote error's text and, for a
\* structured remote error, its code and reason; the step changes nothing at
\* the remote.  A delete of something the remote does not hold is such a
\* request: unless the remote fails otherwise, its answer names the delete
\* operation and carries code 404 and reason NotFound.
C12_RemoteErrorRewrapped ==
    [][\A r \in Reqs :
       /\ (req[r].pc = "new" /\ req'[r].pc = "done" /\ last'.handler \in DeleteHandlers
           /\ ~Held(last'.handler, last'.input))
            => AnswersFailedCall(r)
       /\ AnswersFailedCall(r)
           => LET c == last'.calls[Len(last'.calls)]
                  e == last'.resp.body.error
              IN  /\ last'.resp.status = 500
                  /\ ~last'.resp.body.success
                  /\ e.op # ""
                  /\ e.cause = c.err.reason
                  /\ c.err.typed => (e.code = c.err.code /\ e.reason = c.err.reason)
                  /\ last'.handler \in DeleteHandlers
                       => /\ e.op = DeleteOperation(last'.handler)
                          /\ (~Held(last'.handler, last'.input) /\ ~RemoteFault(last'.resp))
                               => (e.code = 404 /\ e.reason = "NotFound")
                  /\ UNCHANGED <<remote, endpoints, pods, wlog>>]_vars

\* A delete of a secret the remote no longer holds, answered 500 with the
\* operation name, code 404 and reason NotFound.
C12_Witness ==
    /\ Answered("DeleteSecret", 500)
    /\ ~remote["secret"].present
    /\ last.resp.body.error = [op |-> "delete secret", cause |-> "NotFound",
                               code |-> 404, reason |-> "NotFound"]


\* Some request has been accepted by the listener.
Served == \E r \in Reqs : req[r].pc # "new"

\* The environment lacks what the built NewClient or config.Load needs.
CredentialsMissing(env) ==
    \/ env.kubeconfig = "absent"
    \/ env.build = "token" /\ ~(env.host /\ env.token)
    \/ env.build = "kubeconfig" /\ env.kubeconfig # "valid"

\* C13: the listener accepts requests only after the configuration was loaded,
\* the client was created and exactly one liveness probe succeeded; with
\* credentials missing or the probe failed the process never gets past
\* NewClient and serves no request; the probe is never repeated.
C13_FailFastOrdered ==
    /\ proc.probes <= 1
    /\ (Served \/ proc.phase \in {"serving", "draining"})
         => (proc.loaded /\ proc.client /\ proc.probes = 1 /\ proc.healthy)
    /\ CredentialsMissing(proc.env)
         => (~Served /\ proc.probes = 0 /\ proc.phase \in {"start", "configured", "exited"})
    /\ (proc.probes = 1 /\ ~proc.healthy)
         => (~Served /\ proc.phase = "exited" /\ proc.exit = "fatal")
    /\ (proc.phase = "exited" /\ proc.exit = "fatal" /\ ~proc.client) => ~Served

\* A request answered by a process that loaded its configuration, created its
\* client and probed the remote once.
C13_Witness ==
    /\ proc.phase = "serving"
    /\ proc.loaded /\ proc.client /\ proc.probes = 1 /\ proc.healthy
    /\ \E r \in Reqs : req[r].pc = "done"
    /\ last.resp.status = 200

\* A process that ended in NewClient on a failed probe, no request served.
C13_WitnessProbeFailed ==
    /\ proc.phase = "exited" /\ proc.exit = "fatal"
    /\ proc.probes = 1 /\ ~proc.healthy
    /\ ~Served

\* C14 as stated: with a valid kubeconfig file and neither K8S_HOST nor
\* K8S_TOKEN, and with K8S_HOST and K8S_TOKEN and no kubeconfig file, startup
\* gets its client unless the liveness probe fails: the process never ends
\* before it has probed.
C14_AsStated ==
    LET fileOnly == proc.env.kubeconfig = "valid" /\ ~proc.env.host /\ ~proc.env.token
        pairOnly == proc.env.kubeconfig = "absent" /\ proc.env.host /\ proc.env.token
    IN  ((fileOnly \/ pairOnly) /\ proc.phase = "exited" /\ ~proc.client)
          => proc.probes = 1

\* C14, what holds: the kubeconfig build gets its client from a valid file
\* alone; no build gets one without the file.
C14_FileAlwaysNeeded ==
    /\ proc.client => proc.env.kubeconfig # "absent"
    /\ (proc.env.build = "kubeconfig" /\ proc.env.kubeconfig = "valid"
        /\ proc.phase = "exited" /\ ~proc.client) => proc.probes = 1

\* C15: requests are accepted only while the listener is open (not before
\* ListenAndServe, not after the signal); a request in flight at the signal
\* may still complete; the process exits normally only from a state with no
\* request in flight and is ended by force only with one in flight; after the
\* exit nothing is answered and nothing is written to the remote.
C15_DrainOrForce ==
    [][/\ \A r \in Reqs :
            (req[r].pc = "new" /\ req'[r].pc # "new") => proc.phase = "serving"
       /\ \A r \in Reqs :
            req[r] # req'[r] => (proc.phase \in {"serving", "draining"} /\ proc' = proc)
       /\ (proc.phase = "draining" /\ proc'.phase = "exited" /\ proc'.exit = "normal")
            => \A r \in Reqs : req[r].pc # "read"
       /\ (proc.phase = "draining" /\ proc'.phase = "exited" /\ proc'.exit = "forced")
            => \E r \in Reqs : req[r].pc = "read"
       /\ (proc.phase = "draining" /\ proc' # proc)
            => (proc'.phase = "exited" /\ proc'.exit \in {"normal", "forced"})
       /\ proc.phase = "exited" => UNCHANGED <<proc, req, last, remote, pods, wlog>>]_vars

\* A process ended by force with a request still between its remote calls.
C15_Witness ==
    /\ proc.phase = "exited" /\ proc.exit = "forced"
    /\ \E r \in Reqs : req[r].pc = "read"

\* A normal exit after a two-call request was answered and none is in flight.
C15_WitnessDrained ==
    /\ proc.phase = "exited" /\ proc.exit = "normal"
    /\ \E r \in Reqs : req[r].pc = "done"
    /\ Len(last.calls) = 2
    /\ \A r \in Reqs : req[r].pc # "read"


Line(method, path) == [method |-> method, path |-> path]

Member(group, sub) == <<"api", "v1", group, "namespaces", "ns", "app", sub>>

\* The sub-resource requests of the secret handlers.
SecretSubResources ==
    {[line |-> Line("GET", Member("secrets", "keys")), handler |-> "GetSecretKeys"],
     [line |-> Line("GET", Member("secrets", "usage")), handler |-> "GetSecretUsage"]}

\* The sub-resource requests of the other handlers.
OtherSubResources ==
    {[line |-> Line("GET", Member("configmaps", "usage")), handler |-> "GetConfigMapUsage"],
     [line |-> Line("GET", Member("services", "status")), handler |-> "GetServiceStatus"],
     [line |-> Line("GET", Member("deployments", "status")), handler |-> "GetDeploymentStatus"],
     [line |-> Line("PUT", Member("deployments", "scale")), handler |-> "ScaleDeployment"],
     [line |-> Line("GET", Member("pods", "metrics")), handler |-> "GetPodMetrics"],
     [line |-> Line("GET", <<"api", "v1", "namespaces", "ns", "metrics">>),
      handler |-> "GetNamespaceMetrics"],
     [line |-> Line("GET", <<"api", "v1", "namespaces", "ns", "ingresses", "app", "status">>),
      handler |-> "GetIngressStatus"]}

\* The request answered or handed on last was one of subs and went where
\* subs says.
RoutedAsIn(subs) ==
    \A s \in subs :
      (last.input.shape = "line" /\ last.input.body = s.line) => last.handler = s.handler

\* C16 as stated: every sub-resource request reaches its handler: secret keys
\* and secret usage as well as configmap usage, the service, deployment and
\* ingress status, the namespace and pod metrics and the deployment scale.
C16_AsStated == RoutedAsIn(SecretSubResources \cup OtherSubResources)

\* C16, what holds: once the routes are registered, every sub-resource request
\* other than the two of the secrets reaches its handler, and the two of the
\* secrets are answered 404 by the router.
C16_AllButSecretSubResources ==
    /\ RoutedAsIn(OtherSubResources)
    /\ \A s \in SecretSubResources :
         (last.input.shape = "line" /\ last.input.body = s.line)
           => (last.handler = "NoRoute" /\ last.resp.status = 404)

\* GET .../secrets/namespaces/ns/app/keys answered 404.
C16_WitnessNoRoute ==
    /\ last.input.shape = "line"
    /\ last.input.body = Line("GET", Member("secrets", "keys"))
    /\ last.resp = NotFoundPage


\* The last answer came from a handler of a resource (not from /health).
ResourceAnswer == last.handler \notin {"", "Health", "NoRoute"} /\ last.resp # NoResponse

\* The answer has a boolean success that tells 2xx from the rest, and an
\* error exactly when success is false.
FlaggedEnvelope(resp) ==
    /\ "success" \in DOMAIN resp.body
    /\ resp.body.success \in BOOLEAN
    /\ resp.body.success <=> resp.status \in 200..299
    /\ ("error" \in DOMAIN resp.body) <=> ~resp.body.success

\* The handlers whose success answer is a sentence, not data.
MessageHandlers == DeleteHandlers \cup {"ScaleDeployment"}

\* C17 as stated: every answer of a resource handler has the envelope
\* {success, data?, error?} and no other top-level field.
C17_AsStated ==
    ResourceAnswer
      => (FlaggedEnvelope(last.resp) /\ DOMAIN last.resp.body \subseteq {"success", "data", "error"})

\* C17: every answer of a resource handler has a boolean success, true
\* exactly for 2xx, and an error exactly when success is false.  The success
\* answers of the delete handlers and of the scale handler carry a message
\* field and no data; every other success answer carries data and no other
\* field.
C17_EnvelopeOrMessage ==
    ResourceAnswer
      => /\ FlaggedEnvelope(last.resp)
         /\ IF last.resp.body.success
            THEN IF last.handler \in MessageHandlers
                 THEN DOMAIN last.resp.body = {"success", "message"}
                 ELSE DOMAIN last.resp.body = {"success", "data"}
            ELSE DOMAIN last.resp.body = {"success", "error"}

\* A configmap deleted: the answer has success and message, and no data.
C17_Witness ==
    /\ Answered("DeleteConfigMap", 200)
    /\ DOMAIN last.resp.body = {"success", "message"}


CreateAnswers(r) ==
    req[r].pc = "new" /\ req'[r].pc = "done" /\ last'.handler \in CreateHandlers

RequiredOf(handler) ==
    CASE handler = "CreateDeployment" -> Required("deployment")
      [] handler = "CreateService"    -> Required("service")
      [] handler = "CreateConfigMap"  -> Required("configmap")
      [] handler = "CreateSecret"     -> Required("secret")
      [] handler = "CreateIngress"    -> Required("ingress")

\* The body is no JSON of the right shape, or lacks a required field.
ShapeError(handler, input) ==
    input.shape # "json" \/ \E f \in RequiredOf(handler) : ~Has(input.body, f)

\* C19 as stated: a create request is answered 400 exactly when its body is
\* missing, malformed or lacks a required field; every other create request
\* (one with replicas 0 included) is forwarded to the remote API.
C19_AsStated ==
    [][\A r \in Reqs :
         CreateAnswers(r)
           => /\ last'.resp.status = 400 <=> ShapeError(last'.handler, last'.input)
              /\ ~ShapeError(last'.handler, last'.input) => Len(last'.calls) = 1]_vars

\* C19, what holds: a create request is answered 400, with no remote call,
\* exactly when its body is missing, malformed, lacks a required field or
\* holds 0 or the empty string in a required number or string field; every
\* other create request makes its one remote call.
C19_RequiredRejectsZero ==
    [][\A r \in Reqs :
         CreateAnswers(r)
           => LET zeroed == \E f \in RequiredOf(last'.handler) \ NilOnly :
                               /\ Has(last'.input.body, f)
                               /\ last'.input.body[f] = ZeroValue(f)
                  bad    == ShapeError(last'.handler, last'.input) \/ zeroed
              IN  /\ last'.resp.status = 400 <=> bad
                  /\ bad => last'.calls = <<>>
                  /\ ~bad => Len(last'.calls) = 1]_vars

\* A CreateDeployment with name, image and replicas 0, answered 400 without
\* a remote call.
C19_WitnessReplicasZero ==
    /\ Answered("CreateDeployment", 400)
    /\ last.input.shape = "json"
    /\ \A f \in Required("deployment") : Has(last.input.body, f)
    /\ last.input.body["replicas"] = 0
    /\ ~IsEmpty(last.input.body["name"]) /\ ~IsEmpty(last.input.body["image"])
    /\ last.calls = <<>>


\* C20: a /health request is answered 200 with {status: ok} and nothing
\* else, without a remote call and without a change of the remote, in every
\* state in which the server takes a request, whatever the remote holds and
\* whatever it answered to the calls before.
C20_HealthStatic ==
    [][\A r \in Reqs :
         /\ Arrives(r) => ENABLED Health(r)
         /\ (req[r].pc = "new" /\ req'[r].pc = "done" /\ last'.handler = "Health")
              => /\ last'.resp = [status |-> 200, body |-> [status |-> "ok"]]
                 /\ last'.calls = <<>>
                 /\ UNCHANGED <<remote, endpoints, pods, wlog, proc>>]_vars

\* /health answered 200 as the second request, the configmap deleted from the
\* remote by the first.
C20_Witness ==
    /\ last.handler = "Health"
    /\ last.rid = 2
    /\ last.resp = [status |-> 200, body |-> [status |-> "ok"]]
    /\ last.calls = <<>>
    /\ ~remote["configmap"].present


\* ------------------------------------------------------------------------
\* The report has one entry per entry of the held value, each with the held
\* value under the given field and the entry's key under the other.
Reports(report, field, key, held) ==
    /\ DOMAIN report = DOMAIN held
    /\ \A k \in DOMAIN held : report[k][field] = held[k] /\ report[k][key] = k

\* The step answers the ingress status request r with 200.
AnswersIngressStatus(r) ==
    /\ req[r].pc = "new" /\ req'[r].pc = "done"
    /\ last'.rid = r /\ last'.handler = "GetIngressStatus" /\ last'.resp.status = 200

\* C21: GetIngressStatus issues exactly one remote call, a read of the
\* ingress, and the rule table, the TLS bindings and the load-balancer
\* addresses it answers are those of the ingress the remote holds at the moment
\* of that read, all of one snapshot, whatever writers are in flight.
C21_StatusOfOneSnapshot ==
    [][\A r \in Reqs :
         /\ (last'.rid = r /\ last'.rid # last.rid /\ last'.handler = "GetIngressStatus")
              => /\ Verbs(last'.calls) = <<"get">>
                 /\ last'.calls[1].resource = "ingress"
                 /\ UNCHANGED <<remote, wlog>>
         /\ AnswersIngressStatus(r)
              => LET held == remote["ingress"].obj
                     data == last'.resp.body.data
                 IN  /\ remote["ingress"].present
                     /\ Reports(data.rules, "paths", "host", held["rules"])
                     /\ Reports(data.tls, "secretName", "hosts", held["tls"])
                     /\ Reports(data.loadBalancer, "ip", "hostname", held["loadBalancer"])
                     /\ data.class = held["className"]
                     /\ data.annotations = held["annotations"]]_vars

\* A status answered while an update of the ingress is between its read and
\* its write, after the controller has changed the addresses.
C21_Witness ==
    /\ Answered("GetIngressStatus", 200)
    /\ \E r \in Reqs : req[r].pc = "read" /\ req[r].handler = "UpdateIngress"
    /\ DOMAIN last.resp.body.data.loadBalancer = {"k1"}
    /\ last.resp.body.data.loadBalancer["k1"].ip = 1
    /\ remote["ingress"].obj["loadBalancer"] = [k \in {"k1"} |-> 1]


\* ------------------------------------------------------------------------
UsageHandlers == {"GetConfigMapUsage", "GetSecretUsage"}

\* The pod references the named object of the kind through a volume, an
\* envFrom entry or an env valueFrom.
Uses(pod, kind, name) ==
    \/ \E v \in 1..Len(pod.volumes) : pod.volumes[v].src = Ref(kind, name)
    \/ \E c \in 1..Len(pod.containers) :
         \/ \E e \in 1..Len(pod.containers[c].envFrom) :
              pod.containers[c].envFrom[e] = Ref(kind, name)
         \/ \E e \in 1..Len(pod.containers[c].env) :
              pod.containers[c].env[e].ref = Ref(kind, name)

\* The step answers a usage request.
AnswersUsage ==
    /\ \E r \in Reqs : req[r].pc # "done" /\ req'[r].pc = "done" /\ last'.rid = r
    /\ last'.handler \in UsageHandlers

\* C22: the step that answers a usage request makes one call, the pod list.
\* When the list succeeds, every entry of the report is a pod of the list the
\* remote holds at that step that references the target through a volume, an
\* envFrom or an env valueFrom (a pod referencing it through none is not
\* listed), no pod is listed twice, and totalPods is the number of entries;
\* when the list fails the answer is an error without any report.
C22_UsageSoundAndFresh ==
    [][AnswersUsage =>
         LET kind == IF last'.handler = "GetConfigMapUsage" THEN "configmap" ELSE "secret"
             name == last'.input.body["name"]
             data == last'.resp.body.data
             items == IF kind = "configmap" THEN data.podsUsingConfigMap
                      ELSE data.podsUsingSecret
         IN  /\ Verbs(last'.calls) = <<"list">>
             /\ last'.calls[1].resource = "pod"
             /\ last'.calls[1].ok
                  => /\ last'.resp.status = 200
                     /\ \A i \in 1..Len(items) :
                          \E p \in 1..Len(pods) :
                            pods[p].name = items[i].name /\ Uses(pods[p], kind, name)
                     /\ \A i, j \in 1..Len(items) : items[i].name = items[j].name => i = j
                     /\ data.totalPods = Len(items)
             /\ ~last'.calls[1].ok
                  => /\ last'.resp.status = 500
                     /\ DOMAIN last'.resp.body = {"success", "error"}]_vars

\* A third request, a usage scan answered after pod 1 was deleted, that lists
\* the remaining pod 2 and counts one pod.
C22_Witness ==
    /\ UsageAnswered
    /\ seen.more = 1 /\ last.rid = NReq
    /\ ~HasPod(1) /\ HasPod(2)
    /\ Len(ReportedPods) = 1 /\ ReportedPods[1].name = 2
    /\ last.resp.body.data.totalPods = 1

\* A usage scan whose pod list failed.
C22_WitnessListFailed ==
    /\ last.handler \in UsageHandlers
    /\ last.resp.status = 500


\* ------------------------------------------------------------------------
\* wlog[i] is an accepted secret update whose body names stringData and that no
\* other write interleaved.
SecretDataUpdate(i) ==
    /\ IsUpdate(wlog[i]) /\ wlog[i].kind = "secret"
    /\ Has(wlog[i].body, "stringData")
    /\ Alone(i)

C23_DataReplaced ==
    \A i \in 1..Len(wlog) :
      SecretDataUpdate(i) => wlog[i].post.obj["data"] = wlog[i].body["stringData"]

\* An update naming key k1 after which the stored key k2 is gone.
C23_WitnessKeyLost ==
    \E i \in 1..Len(wlog) :
      /\ SecretDataUpdate(i)
      /\ wlog[i].body["stringData"] = Tag(wlog[i].rid)
      /\ "k2" \in DOMAIN wlog[i].pre.obj["data"]
      /\ "k2" \notin DOMAIN wlog[i].post.obj["data"]


\* ------------------------------------------------------------------------
ReadModifyWrite == UpdateHandlers \cup {"ScaleDeployment"}

\* The first remote call of the request answered last was a read that failed.
ReadFailed(l) == l.handler \in ReadModifyWrite /\ l.calls # <<>> /\ ~l.calls[1].ok

\* C24: an update or scale request issues its write only as its second call,
\* after a read that succeeded.  When the read fails the request has made that
\* one call only and is answered 500 with an error, and the step that answers
\* it leaves the remote objects and the write history as they were.
C24_WriteOnlyAfterRead ==
    /\ [](/\ last.handler \in ReadModifyWrite
             => \A i \in 1..Len(last.calls) :
                  last.calls[i].verb = "update"
                    => i = 2 /\ last.calls[1].verb = "get" /\ last.calls[1].ok
          /\ ReadFailed(last)
             => /\ Verbs(last.calls) = <<"get">>
                /\ last.resp.status = 500
                /\ last.resp.body.success = FALSE
                /\ "error" \in DOMAIN last.resp.body
          /\ \A r \in Reqs :
               (req[r].pc = "read" /\ req[r].handler \in ReadModifyWrite)
                 => Verbs(req[r].calls) = <<"get">> /\ req[r].calls[1].ok)
    /\ [][(\E r \in Reqs : req[r].pc = "new" /\ req'[r].pc = "done" /\ last'.rid = r)
            /\ ReadFailed(last')
            => UNCHANGED <<remote, endpoints, pods, wlog>>]_vars

\* A scale request and an ingress update whose read found nothing: each made
\* one call and the object is still absent.
C24_Witness ==
    /\ last.handler \in {"ScaleDeployment", "UpdateIngress"}
    /\ ReadFailed(last)
    /\ last.calls[1].err = NotFound
    /\ ~remote[IF last.handler = "ScaleDeployment" THEN "deployment" ELSE "ingress"].present


\* ------------------------------------------------------------------------
\* The list, get, status, metrics, usage and keys handlers.
ReadHandlers ==
    ListHandlers \cup GetHandlers \cup DerivedHandlers \cup {"GetServiceStatus"}

ReadVerbs == {"get", "list"}

\* C25: a step of a list, get, status, metrics, usage or keys request issues
\* get and list calls only and leaves the remote objects, the endpoints, the
\* pods and the write history as they were; a usage request issues one call,
\* the pod list, and none for the object it names.
C25_ReadsMutateNothing ==
    /\ [][\A r \in Reqs :
            (req'[r].pc # req[r].pc /\ req'[r].pc \in {"read", "done"}
             /\ (IF req'[r].pc = "read" THEN req'[r].handler ELSE last'.handler)
                  \in ReadHandlers)
              => /\ UNCHANGED <<remote, endpoints, pods, wlog>>
                 /\ LET calls == IF req'[r].pc = "read" THEN req'[r].calls ELSE last'.calls
                    IN  \A i \in 1..Len(calls) : calls[i].verb \in ReadVerbs]_vars
    /\ [](last.handler \in UsageHandlers
            => Verbs(last.calls) = <<"list">> /\ last.calls[1].resource = "pod")

\* A usage report answered for a configmap that was deleted before.
C25_Witness ==
    /\ Answered("GetConfigMapUsage", 200)
    /\ last.input.body["name"] = ObjName
    /\ ~remote["configmap"].present
    /\ Len(wlog) = 1 /\ wlog[1].verb = "delete"


\* ------------------------------------------------------------------------
\* The step answers a namespace metrics request with 200.
AnswersMetrics ==
    /\ \E r \in Reqs : req[r].pc = "new" /\ req'[r].pc = "done" /\ last'.rid = r
    /\ last'.handler = "GetNamespaceMetrics" /\ last'.resp.status = 200

\* The number of pods of the list in the given phase.
InPhase(podList, phase) == Cardinality({i \in 1..Len(podList) : podList[i].phase = phase})

\* The counter the report holds under the key, 0 when it has no such key.
Counter(report, key) == IF key \in DOMAIN report.status THEN report.status[key] ELSE 0

\* C26, as stated: the report holds the number of pods as podCount and, under
\* running, pending, failed and succeeded, the numbers of pods in the phases
\* Running, Pending, Failed and Succeeded.
C26_AsStated ==
    [][AnswersMetrics =>
         LET report == last'.resp.body.data
         IN  /\ report.podCount = Len(pods)
             /\ Counter(report, "running") = InPhase(pods, "Running")
             /\ Counter(report, "pending") = InPhase(pods, "Pending")
             /\ Counter(report, "failed") = InPhase(pods, "Failed")
             /\ Counter(report, "succeeded") = InPhase(pods, "Succeeded")]_vars

\* What the code does instead: podCount is the number of pods, the four
\* lower-case counters are always 0, and the pods are counted under keys that
\* are the phase names as the remote spells them.
C26_CountedUnderPhaseNames ==
    [][AnswersMetrics =>
         LET report == last'.resp.body.data
         IN  /\ report.podCount = Len(pods)
             /\ \A key \in {"running", "pending", "failed", "succeeded"} :
                  key \in DOMAIN report.status /\ report.status[key] = 0
             /\ \A phase \in Phases : Counter(report, phase) = InPhase(pods, phase)]_vars

\* A report on two running pods and one pending pod.
C26_WitnessZeroCounters ==
    /\ Answered("GetNamespaceMetrics", 200)
    /\ last.resp.body.data.podCount = 3
    /\ last.resp.body.data.status["running"] = 0
    /\ Counter(last.resp.body.data, "Running") = 2
    /\ Counter(last.resp.body.data, "Pending") = 1


\* ------------------------------------------------------------------------
\* The step is the accepted write of scale request r.
Scales(r) ==
    /\ req[r].pc = "read" /\ req[r].handler = "ScaleDeployment"
    /\ req'[r].pc = "done" /\ last'.resp.status = 200

OtherGroups == Groups("deployment") \ {"replicas"}

\* C27: an accepted scale to n leaves the deployment with n replicas and with
\* every other group at the value the scale request read; with no write
\* accepted between its read and its write that is the value the deployment
\* had before the step, otherwise the writes in between are undone.
C27_ScaleChangesReplicasOnly ==
    [][\A r \in Reqs :
         Scales(r) =>
           LET n == ParseInt(req[r].input.body["replicas"]).val
           IN  /\ remote'["deployment"].present
               /\ remote'["deployment"].obj["replicas"] = n
               /\ \A g \in OtherGroups :
                    /\ remote'["deployment"].obj[g] = req[r].existing[g]
                    /\ req[r].at = Len(wlog)
                         => remote'["deployment"].obj[g] = remote["deployment"].obj[g]]_vars

\* An accepted label update of the deployment, then the accepted write of a
\* scale that had read before it: one replica, and the labels back at their
\* old value.
C27_Witness ==
    /\ Len(wlog) = 2
    /\ wlog[1].handler = "UpdateDeployment" /\ Named(wlog[1], "labels")
    /\ wlog[1].post.obj["labels"] = Tag(wlog[1].rid)
    /\ wlog[2].handler = "ScaleDeployment" /\ wlog[2].at = 0
    /\ remote["deployment"].obj["replicas"] = 1
    /\ remote["deployment"].obj["labels"] = InitialMap

\* An accepted scale that no write interleaved.
C27_WitnessAlone ==
    /\ Len(wlog) = 1 /\ wlog[1].handler = "ScaleDeployment"
    /\ remote["deployment"].obj["replicas"] = 1
    /\ remote["deployment"].obj["image"] = InitialMap


\* ------------------------------------------------------------------------
\* C28: the deployment object of every accepted CreateDeployment has the
\* selector app=<name> and the same template labels, one container named
\* after the request with the request's image, the request's replica count,
\* and as metadata labels and annotations those of the request (none when it
\* has none), whatever labels the request carries.
C28_SelectorMatchesTemplate ==
    Answered("CreateDeployment", 201) =>
      LET request == last.input.body
          object  == last.api
      IN  /\ object.spec.selector.matchLabels = [app |-> request["name"]]
          /\ object.spec.template.labels = object.spec.selector.matchLabels
          /\ Len(object.spec.template.containers) = 1
          /\ object.spec.template.containers[1].name = request["name"]
          /\ object.spec.template.containers[1].image = request["image"]
          /\ object.spec.replicas = request["replicas"]
          /\ object.metadata.name = request["name"]
          /\ Has(request, "labels") => object.metadata.labels = request["labels"]
          /\ ~Has(request, "labels") => IsEmpty(object.metadata.labels)
          /\ request["name"] # <<>>

\* A deployment web created with the label app=db of its own: the selector
\* is still app=web.
C28_Witness ==
    /\ Answered("CreateDeployment", 201)
    /\ last.input.body["name"] = Str("web")
    /\ Has(last.input.body, "labels")
    /\ last.input.body["labels"] = [app |-> Str("db")]
    /\ last.api.metadata.labels = [app |-> Str("db")]
    /\ last.api.spec.selector.matchLabels = [app |-> Str("web")]
    /\ remote["deployment"].present


\* ------------------------------------------------------------------------
\* wlog[i] and wlog[j] are accepted updates of one object with the same body,
\* the second read after the first was written, no write in between.
Repeated(i, j) ==
    /\ j = i + 1
    /\ IsUpdate(wlog[i]) /\ IsUpdate(wlog[j])
    /\ wlog[i].handler = wlog[j].handler
    /\ wlog[i].body = wlog[j].body
    /\ wlog[j].at = i

\* C29: an update applied a second time with the same body, no other write
\* in between, leaves the object as the first application left it.
C29_UpdateIdempotent ==
    \A i, j \in 1..Len(wlog) :
      Repeated(i, j) => /\ wlog[j].pre = wlog[i].post
                        /\ wlog[j].post = wlog[i].post

\* A secret update with values, accepted twice in a row.
C29_Witness ==
    \E i, j \in 1..Len(wlog) :
      /\ Repeated(i, j)
      /\ wlog[i].kind = "secret" /\ Valued(wlog[i])
      /\ Has(wlog[i].body, "stringData")
      /\ remote["secret"].obj["data"] = wlog[i].body["stringData"]

\* A replica update of the deployment, accepted twice in a row.
C29_WitnessReplicas ==
    \E i, j \in 1..Len(wlog) :
      /\ Repeated(i, j)
      /\ wlog[i].kind = "deployment" /\ Has(wlog[i].body, "replicas")
      /\ wlog[i].body["replicas"] > 0


\* ------------------------------------------------------------------------
\* The method of the line request r came in with.
Method(r) == seen.writer[r].line.method

\* The middleware has looked at request r.
PastMiddleware(r) == req[r].pc # "accepted"

\* What stands for request r once the middleware is past it: the headers on
\* its writer; an OPTIONS request done, never handed on; any other answered,
\* if answered, by the handler of its route.
HandledByMiddleware(r) ==
    /\ seen.writer[r].headers = CORSHeaders
    /\ Method(r) = "OPTIONS" =>
         /\ req[r].pc = "done"
         /\ \A i \in 1..Len(wlog) : wlog[i].rid # r
         /\ last.rid = r =>
              /\ last.handler = "CORS" /\ last.calls = <<>>
              /\ last.resp.status = 204
    /\ (Method(r) # "OPTIONS" /\ last.rid = r) =>
         last.handler = Dispatch(seen.writer[r].line)

\* The step of the middleware on request r: nothing of the remote changes;
\* an OPTIONS request ends there with the 204, any other is handed on with
\* no answer written.
MiddlewareStep(r) ==
    (req[r].pc = "accepted" /\ req'[r].pc # "accepted") =>
      /\ UNCHANGED <<remote, endpoints, pods, wlog>>
      /\ IF seen'.writer[r].line.method = "OPTIONS"
         THEN /\ req'[r].pc = "done"
              /\ last'.rid = r /\ last'.resp.status = 204 /\ last'.calls = <<>>
         ELSE /\ req'[r].pc = "new"
              /\ UNCHANGED last

\* C30: an OPTIONS request to any path is answered 204 with the CORS
\* headers by the middleware and ends there, no handler run and no remote
\* call made for it; every other request goes on to routing with the same
\* headers set.
C30_OptionsAbortedOthersPass ==
    /\ [](\A r \in Reqs : PastMiddleware(r) => HandledByMiddleware(r))
    /\ [][\A r \in Reqs : MiddlewareStep(r)]_vars

\* An OPTIONS request on a deployment's path answered 204 with the headers,
\* after the other request has written to the remote.
C30_Witness ==
    \E r \in Reqs :
      /\ last.rid = r /\ last.handler = "CORS" /\ last.resp.status = 204
      /\ last.input.body = [method |-> "OPTIONS",
                            path |-> <<"api", "v1", "deployments", "namespaces", "ns", "app">>]
      /\ seen.writer[r].headers = CORSHeaders
      /\ wlog # <<>>

\* A PUT answered by its handler after a remote write, the headers on its
\* writer.
C30_WitnessThrough ==
    \E r \in Reqs :
      /\ last.rid = r /\ Method(r) = "PUT" /\ last.handler = "UpdateService"
      /\ last.resp.status = 200 /\ Len(last.calls) = 2
      /\ seen.writer[r].headers = CORSHeaders

====
